---- MODULE Spec2Model ----
(***************************************************************************)
(* A model of the slacker pipeline: time/thread clustering of relevant     *)
(* messages (slack_search.py, slack_injury_search.py), the context-overlap *)
(* deduplication fixpoint, and the AIAnalyzer calls that interpret the     *)
(* provider's answers (ai_analyzer.py).                                    *)
(*                                                                         *)
(* Timestamps are integers (the code compares float(m["ts"])); a message   *)
(* keeps an id, its position in the input list, so that two messages with  *)
(* equal fields stay distinguishable, as two dicts are in Python.          *)
(***************************************************************************)
EXTENDS Integers, Sequences, FiniteSets, TLC

VARIABLES
    \* cluster_messages: its arguments, its return value, which variant ran
    messages, gap_seconds, clusters, clusterPc,
    \* dedup_by_context_overlap: its arguments, its return value, and the
    \* return value of a second call on the first one's result
    units, overlap_threshold, deduped, deduped_again, dedupPc,
    \* the passes of the while loop of the first call, with their merges
    dedup_passes,
    \* the AIProvider the analyzer was built with
    provider,
    \* group_topics: its argument, what provider.complete did, its result
    \* (the groups returned or the exception that left it)
    extractions, group_call, groups, group_exc, groupPc,
    \* classify_messages: its argument, the loop variable i, the list it
    \* builds, what each _classify_batch returned, what the last call of
    \* provider.complete did, the exception that left it
    channel_messages, batch_start, relevant, batch_results, classify_call,
    classify_exc, classifyPc,
    \* the extraction loop of main: the number of deduplicated units, the
    \* loop index, the records collected, the last provider call, the
    \* exception that ended the run
    n_deduped, ext_idx, all_extractions, extract_call, extract_exc, extractPc,
    \* the calls of provider.complete made so far: what the backend did on
    \* each and what complete() returned or raised
    complete_log,
    \* main: which entry point runs (slack_search.py builds a knowledge base,
    \* slack_injury_search.py an incident report), args.login, the provider
    \* asked for, the state of its backend when it is constructed, where main
    \* is, the number of messages of each channel, the number of relevant
    \* messages classification returned for each channel classified so far,
    \* what report.write wrote, the kinds of provider calls made, the pipeline
    \* steps started, the exception that ended the run
    run_mode, args_login, args_provider, backend_state, mainPc, all_channel_data,
    relevant_by_channel, report_written, provider_calls, steps_started, main_exc,
    \* _extract_json: a JSON value, the prose put before and after it, the
    \* tag of the fence put around it, and what _extract_json makes of the
    \* value given raw, fenced, and inside the prose
    json_value, leading_prose, trailing_prose, fence_tag, raw_result, fenced_result,
    prose_result,
    \* context gathering for one cluster: the cluster, the channel's message
    \* list and the window (scrape mode), what fetch_surrounding_messages and
    \* fetch_thread return for each anchor and thread (API mode), the context
    \* gathered
    gc_cluster, gc_all_messages, gc_window, surrounding_fetched, thread_fetched,
    gathered_context, contextPc,
    \* cluster_messages on a list and on a permutation of it: the list, the
    \* permutation, the gap, the two return values
    perm_messages, perm, perm_gap, clusters_original, clusters_permuted, permPc,
    \* synthesize_article: its arguments, what provider.complete does when it
    \* is called, the number of calls made, the article returned or the
    \* exception that left it
    synth_title, synth_extractions, synth_call, synth_calls, article, synth_exc, synthPc,
    \* the cluster loop of the API-mode main for one channel: the clusters,
    \* the loop index, claimed_ts, raw_incidents, and for each cluster
    \* reached what the loop did with it
    api_clusters, cluster_idx, claimed_ts, raw_incidents, claim_log, claimPc,
    \* the provider calls of one knowledge-base run: the message count of each
    \* channel, the position of each loop of main, and every call of
    \* provider.complete with what it was made for and how it ended
    kb_channels, kb_relevant, kb_batch_start, kb_batch_relevant, kb_deduped, kb_unit,
    kb_extractions, kb_groups, kb_group, kb_calls, kb_exc, kb_report, kbPc

clusterVars == <<messages, gap_seconds, clusters, clusterPc>>

dedupVars == <<units, overlap_threshold, deduped, deduped_again, dedupPc, dedup_passes>>

groupVars == <<extractions, group_call, groups, group_exc, groupPc>>

classifyVars == <<channel_messages, batch_start, relevant, batch_results,
                  classify_call, classify_exc, classifyPc>>

extractVars == <<n_deduped, ext_idx, all_extractions, extract_call, extract_exc, extractPc>>

completeVars == <<complete_log>>

mainVars == <<run_mode, args_login, args_provider, backend_state, mainPc,
              all_channel_data, relevant_by_channel, report_written, provider_calls,
              steps_started, main_exc>>

jsonVars == <<json_value, leading_prose, trailing_prose, fence_tag, raw_result,
              fenced_result, prose_result>>

contextVars == <<gc_cluster, gc_all_messages, gc_window, surrounding_fetched,
                 thread_fetched, gathered_context, contextPc>>

permVars == <<perm_messages, perm, perm_gap, clusters_original, clusters_permuted, permPc>>

synthVars == <<synth_title, synth_extractions, synth_call, synth_calls, article,
               synth_exc, synthPc>>

claimVars == <<api_clusters, cluster_idx, claimed_ts, raw_incidents, claim_log, claimPc>>

kbVars == <<kb_channels, kb_relevant, kb_batch_start, kb_batch_relevant, kb_deduped, kb_unit,
            kb_extractions, kb_groups, kb_group, kb_calls, kb_exc, kb_report, kbPc>>

vars == <<clusterVars, dedupVars, provider, groupVars, classifyVars, extractVars,
          completeVars, mainVars, jsonVars, contextVars, permVars, synthVars, claimVars,
          kbVars>>

\* what an action of one component leaves alone
notCluster == <<dedupVars, provider, groupVars, classifyVars, extractVars, completeVars, mainVars, jsonVars,
    contextVars, permVars, synthVars, claimVars, kbVars>>

notDedup == <<clusterVars, provider, groupVars, classifyVars, extractVars, completeVars, mainVars, jsonVars,
    contextVars, permVars, synthVars, claimVars, kbVars>>

notGroup == <<clusterVars, dedupVars, classifyVars, extractVars, completeVars, mainVars, jsonVars,
    contextVars, permVars, synthVars, claimVars, kbVars>>

notClassify == <<clusterVars, dedupVars, groupVars, extractVars, completeVars, mainVars, jsonVars,
    contextVars, permVars, synthVars, claimVars, kbVars>>

notExtract == <<clusterVars, dedupVars, groupVars, classifyVars, completeVars, mainVars, jsonVars,
    contextVars, permVars, synthVars, claimVars, kbVars>>

notComplete == <<clusterVars, dedupVars, groupVars, classifyVars, extractVars, mainVars, jsonVars,
    contextVars, permVars, synthVars, claimVars, kbVars>>

\* _extract_json touches nothing, the provider included
notJson == <<clusterVars, dedupVars, provider, groupVars, classifyVars, extractVars,
             completeVars, mainVars,
             contextVars, permVars, synthVars, claimVars, kbVars>>

\* context gathering and the permutation check touch nothing else
notContext == <<clusterVars, dedupVars, provider, groupVars, classifyVars, extractVars,
                completeVars, mainVars, jsonVars, permVars, synthVars, claimVars, kbVars>>

notPerm == <<clusterVars, dedupVars, provider, groupVars, classifyVars, extractVars,
             completeVars, mainVars, jsonVars, contextVars, synthVars, claimVars, kbVars>>

notSynth == <<clusterVars, dedupVars, groupVars, classifyVars, extractVars, completeVars,
              mainVars, jsonVars, contextVars, permVars, claimVars, kbVars>>

notClaim == <<clusterVars, dedupVars, provider, groupVars, classifyVars, extractVars,
              completeVars, mainVars, jsonVars, contextVars, permVars, synthVars, kbVars>>

notKb == <<clusterVars, dedupVars, groupVars, classifyVars, extractVars,
           completeVars, mainVars, jsonVars, contextVars, permVars, synthVars, claimVars>>

notMain == <<clusterVars, dedupVars, groupVars, classifyVars, extractVars, completeVars, jsonVars,
    contextVars, permVars, synthVars, claimVars, kbVars>>

(***************************************************************************)
(* Bounds and input domains                                                *)
(***************************************************************************)
MaxMsgs == 4

TsValues == {0, 1, 3}

GapValues == {0, 1}

\* "" stands for a message without thread_ts (m.get("thread_ts") is falsy)
ThreadValues == {"", "t1", "t2"}

RawMessages(n) == [1..n -> [ts : TsValues, thread_ts : ThreadValues]]

\* the input list, each message tagged with its position
WithIds(raw) ==
    [k \in 1..Len(raw) |-> [id |-> k, ts |-> raw[k].ts, thread_ts |-> raw[k].thread_ts]]

(***************************************************************************)
(* Helpers                                                                 *)
(***************************************************************************)
Last(s) == s[Len(s)]

Range(s) == {s[k] : k \in DOMAIN s}

RECURSIVE Flatten(_)
Flatten(ss) == IF ss = <<>> THEN <<>> ELSE Head(ss) \o Flatten(Tail(ss))

(***************************************************************************)
(* sorted(messages, key=lambda m: float(m.get("ts", 0))): a stable sort    *)
(***************************************************************************)
RECURSIVE InsertByTs(_, _)
InsertByTs(sorted, m) ==
    IF sorted = <<>> THEN <<m>>
    ELSE IF Last(sorted).ts <= m.ts THEN Append(sorted, m)
    ELSE Append(InsertByTs(SubSeq(sorted, 1, Len(sorted) - 1), m), Last(sorted))

RECURSIVE SortFrom(_, _, _)
SortFrom(s, k, acc) ==
    IF k > Len(s) THEN acc ELSE SortFrom(s, k + 1, InsertByTs(acc, s[k]))

SortByTs(s) == SortFrom(s, 1, <<>>)

(***************************************************************************)
(* First pass of cluster_messages: walk the sorted list, open a new        *)
(* cluster when the gap to the last message of the open one exceeds        *)
(* gap_seconds.                                                            *)
(***************************************************************************)
GapJoins(prev_ts, curr_ts, gap) == (curr_ts - prev_ts) <= gap

RECURSIVE TimeGapWalk(_, _, _, _)
TimeGapWalk(sorted_msgs, k, cls, gap) ==
    IF k > Len(sorted_msgs) THEN cls
    ELSE LET msg == sorted_msgs[k]
             prev_ts == Last(Last(cls)).ts
         IN  IF GapJoins(prev_ts, msg.ts, gap)
             THEN TimeGapWalk(sorted_msgs, k + 1,
                              [cls EXCEPT ![Len(cls)] = Append(@, msg)], gap)
             ELSE TimeGapWalk(sorted_msgs, k + 1, Append(cls, <<msg>>), gap)

\* the walk without the sort
TimeGapClusters_Unsorted(msgs, gap) == TimeGapWalk(msgs, 2, <<<<msgs[1]>>>>, gap)

TimeGapClusters(msgs, gap) ==
    LET sorted_msgs == SortByTs(msgs)
    IN  TimeGapWalk(sorted_msgs, 2, <<<<sorted_msgs[1]>>>>, gap)

\* slack_search.py: the time-gap-only variant
cluster_messages_scrape(msgs, gap) ==
    IF msgs = <<>> THEN <<>> ELSE TimeGapClusters(msgs, gap)

(***************************************************************************)
(* Second pass of the API-mode variant: merge clusters that share a        *)
(* thread_ts, pass after pass, until a pass merges nothing.                *)
(***************************************************************************)
ThreadsOf(cluster) == {cluster[k].thread_ts : k \in DOMAIN cluster} \ {""}

SharesThread(threads_a, threads_b) == threads_a \cap threads_b # {}

\* the inner loop that merges clusters[j] but never marks j as absorbed
RECURSIVE ThreadInner_NoSkip(_, _, _, _, _)
ThreadInner_NoSkip(cls, j, cluster_a, threads_a, skip) ==
    IF j > Len(cls) THEN [cluster |-> cluster_a, skip |-> skip]
    ELSE LET threads_b == ThreadsOf(cls[j])
         IN  IF SharesThread(threads_a, threads_b)
             THEN ThreadInner_NoSkip(cls, j + 1, cluster_a \o cls[j],
                                     threads_a \cup threads_b, skip)
             ELSE ThreadInner_NoSkip(cls, j + 1, cluster_a, threads_a, skip)

\* the inner loop, for j in range(i + 1, len(clusters))
RECURSIVE ThreadInner(_, _, _, _, _)
ThreadInner(cls, j, cluster_a, threads_a, skip) ==
    IF j > Len(cls) THEN [cluster |-> cluster_a, skip |-> skip]
    ELSE IF j \in skip THEN ThreadInner(cls, j + 1, cluster_a, threads_a, skip)
    ELSE LET threads_b == ThreadsOf(cls[j])
         IN  IF SharesThread(threads_a, threads_b)
             THEN ThreadInner(cls, j + 1, cluster_a \o cls[j],
                              threads_a \cup threads_b, skip \cup {j})
             ELSE ThreadInner(cls, j + 1, cluster_a, threads_a, skip)

\* the outer loop, for i, cluster_a in enumerate(clusters)
RECURSIVE ThreadPass(_, _, _, _)
ThreadPass(cls, i, new_clusters, skip) ==
    IF i > Len(cls) THEN [clusters |-> new_clusters, merged |-> skip # {}]
    ELSE IF i \in skip THEN ThreadPass(cls, i + 1, new_clusters, skip)
    ELSE LET r == ThreadInner(cls, i + 1, cls[i], ThreadsOf(cls[i]), skip)
         IN  ThreadPass(cls, i + 1, Append(new_clusters, r.cluster), r.skip)

\* one pass only, whatever it merged
ThreadMerge_OnePass(cls) == ThreadPass(cls, 1, <<>>, {}).clusters

\* while merged: ...
RECURSIVE ThreadMerge(_)
ThreadMerge(cls) ==
    LET pass == ThreadPass(cls, 1, <<>>, {})
    IN  IF pass.merged THEN ThreadMerge(pass.clusters) ELSE pass.clusters

\* the thread-merging variant without the final sort of each cluster
cluster_messages_api_NoResort(msgs, gap) ==
    IF msgs = <<>> THEN <<>> ELSE ThreadMerge(TimeGapClusters(msgs, gap))

\* slack_injury_search.py: the thread-merging variant
cluster_messages_api(msgs, gap) ==
    IF msgs = <<>> THEN <<>>
    ELSE LET merged == ThreadMerge(TimeGapClusters(msgs, gap))
         IN  [k \in DOMAIN merged |-> SortByTs(merged[k])]

(***************************************************************************)
(* Clustering as a state machine: the arguments are chosen, then one of    *)
(* the two variants is called on them.                                     *)
(***************************************************************************)
ClusterArgs ==
    /\ \E n \in 0..MaxMsgs : \E raw \in RawMessages(n) : messages = WithIds(raw)
    /\ gap_seconds \in GapValues
    /\ clusters = <<>>
    /\ clusterPc = "args"

\* the clustering variables when clustering is not what runs
ClusterIdle ==
    /\ messages = <<>>
    /\ gap_seconds = 0
    /\ clusters = <<>>
    /\ clusterPc = "idle"

CallClusterScrape ==
    /\ clusterPc = "args"
    /\ clusters' = cluster_messages_scrape(messages, gap_seconds)
    /\ clusterPc' = "scrape"
    /\ UNCHANGED <<messages, gap_seconds, notCluster>>

CallClusterApi ==
    /\ clusterPc = "args"
    /\ clusters' = cluster_messages_api(messages, gap_seconds)
    /\ clusterPc' = "api"
    /\ UNCHANGED <<messages, gap_seconds, notCluster>>

(***************************************************************************)
(* Units as main builds them (slack_search.py 271-286, slack_injury_search *)
(* 227-251): the context of a non-empty cluster is never empty, its        *)
(* context_ts_set is the set of ts of context_messages, its participants   *)
(* are the users of context_messages.  A channel message is identified by  *)
(* its ts; UserOf gives its author ("" for a message without user).        *)
(***************************************************************************)
MaxUnits == 3

ChannelTs == {1, 2, 3}

DateValues == {1, 2}

UserOf(ts) == CASE ts = 1 -> "u1" [] ts = 2 -> "u2" [] OTHER -> ""

\* 0, 0.4 (what main passes), 0.5 (the default), 1, 1.5
ThresholdValues ==
    {[num |-> 0, den |-> 1], [num |-> 2, den |-> 5], [num |-> 1, den |-> 2],
     [num |-> 1, den |-> 1], [num |-> 3, den |-> 2]}

ChannelMessage(ts) == [ts |-> ts, user |-> UserOf(ts)]

RECURSIVE AscendingSeq(_)
AscendingSeq(S) ==
    IF S = {} THEN <<>>
    ELSE LET m == CHOOSE x \in S : \A y \in S : x <= y
         IN  <<m>> \o AscendingSeq(S \ {m})

ParticipantsOf(context_messages) ==
    {context_messages[k].user : k \in DOMAIN context_messages} \ {""}

BuildUnit(cluster_id, date, ts_set) ==
    LET context_messages == [k \in 1..Cardinality(ts_set) |->
                                ChannelMessage(AscendingSeq(ts_set)[k])]
    IN  [cluster |-> cluster_id,
         date |-> date,
         context_messages |-> context_messages,
         context_ts_set |-> {context_messages[k].ts : k \in DOMAIN context_messages},
         participants |-> ParticipantsOf(context_messages)]

\* what distinguishes the units of one channel: date and context
RawUnits(n) == [1..n -> [date : DateValues, ts_set : (SUBSET ChannelTs) \ {{}}]]

BuildUnits(raw) == [k \in 1..Len(raw) |-> BuildUnit(k, raw[k].date, raw[k].ts_set)]

(***************************************************************************)
(* dedup_by_context_overlap                                                *)
(***************************************************************************)
Min(a, b) == IF a <= b THEN a ELSE b

Max(a, b) == IF a >= b THEN a ELSE b

\* clusters.sort(key=lambda x: x["date"]): stable
RECURSIVE InsertByDate(_, _)
InsertByDate(sorted, u) ==
    IF sorted = <<>> THEN <<u>>
    ELSE IF Last(sorted).date <= u.date THEN Append(sorted, u)
    ELSE Append(InsertByDate(SubSeq(sorted, 1, Len(sorted) - 1), u), Last(sorted))

RECURSIVE SortByDateFrom(_, _, _)
SortByDateFrom(s, k, acc) ==
    IF k > Len(s) THEN acc ELSE SortByDateFrom(s, k + 1, InsertByDate(acc, s[k]))

\* the list left in the order it came in
SortByDate_Unsorted(s) == s

SortByDate(s) == SortByDateFrom(s, 1, <<>>)

\* the overlap test with max(len) as the denominator
Overlaps_MaxDenominator(ts_a, ts_b, threshold) ==
    LET larger == Max(Cardinality(ts_a), Cardinality(ts_b))
    IN  /\ larger > 0
        /\ Cardinality(ts_a \cap ts_b) * threshold.den >= threshold.num * larger

\* the overlap test that refuses sets of one timestamp
Overlaps_SmallerAboveOne(ts_a, ts_b, threshold) ==
    LET smaller == Min(Cardinality(ts_a), Cardinality(ts_b))
    IN  /\ smaller > 1
        /\ Cardinality(ts_a \cap ts_b) * threshold.den >= threshold.num * smaller

\* smaller > 0 and len(intersection) / smaller >= overlap_threshold
Overlaps(ts_a, ts_b, threshold) ==
    LET smaller == Min(Cardinality(ts_a), Cardinality(ts_b))
    IN  /\ smaller > 0
        /\ Cardinality(ts_a \cap ts_b) * threshold.den >= threshold.num * smaller

\* {m["ts"]: m for m in msgs}.values(): one entry per ts, at the place of
\* its first occurrence, holding its last occurrence
RECURSIVE DictByTs(_, _, _)
DictByTs(msgs, k, acc) ==
    IF k > Len(msgs) THEN acc
    ELSE IF \E p \in DOMAIN acc : acc[p].ts = msgs[k].ts
         THEN DictByTs(msgs, k + 1,
                       [p \in DOMAIN acc |->
                           IF acc[p].ts = msgs[k].ts THEN msgs[k] ELSE acc[p]])
         ELSE DictByTs(msgs, k + 1, Append(acc, msgs[k]))

\* the two lists put one after the other, as they are
MergeContextMessages_Concat(msgs_a, msgs_b) == msgs_a \o msgs_b

MergeContextMessages(msgs_a, msgs_b) == SortByTs(DictByTs(msgs_a \o msgs_b, 1, <<>>))

\* the merge that keeps only the receiver's own timestamps and participants
Absorb_ReceiverOnly(cl_a, cl_b) ==
    [cl_a EXCEPT
        !.context_messages = MergeContextMessages(cl_a.context_messages, cl_b.context_messages)]

\* merge clusters[j] into cl_a
Absorb(cl_a, cl_b) ==
    [cl_a EXCEPT
        !.context_ts_set = cl_a.context_ts_set \cup cl_b.context_ts_set,
        !.context_messages = MergeContextMessages(cl_a.context_messages, cl_b.context_messages),
        !.participants = cl_a.participants \cup cl_b.participants]

\* what one merge did: the receiver before it, the unit absorbed, the
\* receiver after it
Merge(cl_a, cl_b) == [receiver |-> cl_a, absorbed |-> cl_b, result |-> Absorb(cl_a, cl_b)]

\* the inner loop that merges clusters[j] but never marks j as absorbed
RECURSIVE DedupInner_NoSkip(_, _, _, _, _, _)
DedupInner_NoSkip(cls, j, cl_a, skip, threshold, merges) ==
    IF j > Len(cls) THEN [unit |-> cl_a, skip |-> skip, merges |-> merges]
    ELSE IF j \in skip THEN DedupInner_NoSkip(cls, j + 1, cl_a, skip, threshold, merges)
    ELSE IF Overlaps(cl_a.context_ts_set, cls[j].context_ts_set, threshold)
         THEN DedupInner_NoSkip(cls, j + 1, Absorb(cl_a, cls[j]), skip, threshold,
                                Append(merges, Merge(cl_a, cls[j])))
         ELSE DedupInner_NoSkip(cls, j + 1, cl_a, skip, threshold, merges)

\* the inner loop, for j in range(i + 1, len(clusters)); merges lists the
\* merges of the pass so far
RECURSIVE DedupInner(_, _, _, _, _, _)
DedupInner(cls, j, cl_a, skip, threshold, merges) ==
    IF j > Len(cls) THEN [unit |-> cl_a, skip |-> skip, merges |-> merges]
    ELSE IF j \in skip THEN DedupInner(cls, j + 1, cl_a, skip, threshold, merges)
    ELSE IF Overlaps(cl_a.context_ts_set, cls[j].context_ts_set, threshold)
         THEN DedupInner(cls, j + 1, Absorb(cl_a, cls[j]), skip \cup {j}, threshold,
                         Append(merges, Merge(cl_a, cls[j])))
         ELSE DedupInner(cls, j + 1, cl_a, skip, threshold, merges)

\* the outer loop, for i, cl_a in enumerate(clusters)
RECURSIVE DedupPass(_, _, _, _, _, _)
DedupPass(cls, i, new_clusters, skip, threshold, merges) ==
    IF i > Len(cls)
    THEN [before |-> cls, clusters |-> new_clusters, merged |-> skip # {}, merges |-> merges]
    ELSE IF i \in skip THEN DedupPass(cls, i + 1, new_clusters, skip, threshold, merges)
    ELSE LET r == DedupInner(cls, i + 1, cls[i], skip, threshold, merges)
         IN  DedupPass(cls, i + 1, Append(new_clusters, r.unit), r.skip, threshold, r.merges)

\* one pass only, whatever it merged
DedupLoop_OnePass(cls, threshold) == DedupPass(cls, 1, <<>>, {}, threshold, <<>>).clusters

\* while merged: ...
RECURSIVE DedupLoop(_, _)
DedupLoop(cls, threshold) ==
    LET pass == DedupPass(cls, 1, <<>>, {}, threshold, <<>>)
    IN  IF pass.merged THEN DedupLoop(pass.clusters, threshold) ELSE pass.clusters

\* the passes of the while loop, one record each
RECURSIVE DedupPasses(_, _)
DedupPasses(cls, threshold) ==
    LET pass == DedupPass(cls, 1, <<>>, {}, threshold, <<>>)
    IN  IF pass.merged THEN <<pass>> \o DedupPasses(pass.clusters, threshold) ELSE <<pass>>

\* the passes a call makes: none when it returns at once
PassesOf(cls, threshold) ==
    IF Len(cls) <= 1 THEN <<>> ELSE DedupPasses(SortByDate(cls), threshold)

dedup_by_context_overlap(cls, threshold) ==
    IF Len(cls) <= 1 THEN cls ELSE DedupLoop(SortByDate(cls), threshold)

(***************************************************************************)
(* Deduplication as a state machine: the arguments are chosen, the         *)
(* function is called, and it is called once more on what it returned.     *)
(***************************************************************************)
DedupArgs ==
    /\ \E n \in 0..MaxUnits : \E raw \in RawUnits(n) : units = BuildUnits(raw)
    /\ overlap_threshold \in ThresholdValues
    /\ deduped = <<>>
    /\ deduped_again = <<>>
    /\ dedup_passes = <<>>
    /\ dedupPc = "args"

DedupIdle ==
    /\ units = <<>>
    /\ overlap_threshold = [num |-> 1, den |-> 2]
    /\ deduped = <<>>
    /\ deduped_again = <<>>
    /\ dedup_passes = <<>>
    /\ dedupPc = "idle"

CallDedup ==
    /\ dedupPc = "args"
    /\ deduped' = dedup_by_context_overlap(units, overlap_threshold)
    /\ dedup_passes' = PassesOf(units, overlap_threshold)
    /\ dedupPc' = "once"
    /\ UNCHANGED <<units, overlap_threshold, deduped_again, notDedup>>

CallDedupAgain ==
    /\ dedupPc = "once"
    /\ deduped_again' = dedup_by_context_overlap(deduped, overlap_threshold)
    /\ dedupPc' = "twice"
    /\ UNCHANGED <<units, overlap_threshold, deduped, dedup_passes, notDedup>>

(***************************************************************************)
(* The provider: complete(prompt, max_tokens) returns text or raises.      *)
(* CompleteRaises lists, per provider class, the exceptions its complete() *)
(* lets out: the RuntimeError each of them raises itself, and the          *)
(* exceptions of the calls it makes outside or past its try block.         *)
(***************************************************************************)
Providers == {"ClaudeAPIProvider", "ClaudeCLIProvider", "OllamaProvider", "LMStudioProvider"}

\* What the backend (or the transport to it) does on one call of complete():
\*   text         a well-formed reply that carries the model's text
\*   timeout      no reply within the timeout
\*   refused      the connection cannot be made
\*   non_2xx      an HTTP error status, an API status error, a CLI exit code # 0
\*   not_json     a reply whose body is not JSON
\*   not_object   a JSON body that is an array, not an object
\*   missing_key  a JSON object without "response" / "choices"
\*   empty_list   "choices": [] / a message whose content list is empty
\*   null_text    the text field is null
BackendOutcomes(p) ==
    CASE p = "ClaudeAPIProvider" -> {"text", "timeout", "refused", "non_2xx", "empty_list"}
      [] p = "ClaudeCLIProvider" -> {"text", "timeout", "non_2xx"}
      [] p = "OllamaProvider" ->
            {"text", "timeout", "refused", "non_2xx", "not_json", "not_object",
             "missing_key", "null_text"}
      [] p = "LMStudioProvider" ->
            {"text", "timeout", "refused", "non_2xx", "not_json", "not_object",
             "missing_key", "empty_list", "null_text"}

CompleteText(text) == [raised |-> "", text |-> text]

CompleteRaised(exc) == [raised |-> exc, text |-> ""]

\* ClaudeAPIProvider.complete: anthropic.APIError (timeout, connection and
\* status errors are APIErrors) becomes RuntimeError; resp.content[0] is
\* evaluated inside the try but IndexError is not an APIError
ClaudeAPIComplete(outcome) ==
    CASE outcome = "text" -> CompleteText("text")
      [] outcome \in {"timeout", "refused", "non_2xx"} -> CompleteRaised("RuntimeError")
      [] outcome = "empty_list" -> CompleteRaised("IndexError")

\* ClaudeCLIProvider.complete: subprocess.run(..., timeout=120) is not in a
\* try; a return code # 0 raises RuntimeError
ClaudeCLIComplete(outcome) ==
    CASE outcome = "text" -> CompleteText("text")
      [] outcome = "timeout" -> CompleteRaised("TimeoutExpired")
      [] outcome = "non_2xx" -> CompleteRaised("RuntimeError")

\* OllamaProvider.complete: except (URLError, OSError) -> RuntimeError;
\* json.loads and data.get("response", "").strip() raise what they raise
OllamaComplete(outcome) ==
    CASE outcome = "text" -> CompleteText("text")
      [] outcome \in {"timeout", "refused", "non_2xx"} -> CompleteRaised("RuntimeError")
      [] outcome = "not_json" -> CompleteRaised("JSONDecodeError")
      [] outcome = "not_object" -> CompleteRaised("AttributeError")
      [] outcome = "missing_key" -> CompleteText("")
      [] outcome = "null_text" -> CompleteRaised("AttributeError")

\* LMStudioProvider.complete: except (URLError, OSError) -> RuntimeError;
\* json.loads and data["choices"][0]["message"]["content"].strip() raise
\* what they raise
LMStudioComplete(outcome) ==
    CASE outcome = "text" -> CompleteText("text")
      [] outcome \in {"timeout", "refused", "non_2xx"} -> CompleteRaised("RuntimeError")
      [] outcome = "not_json" -> CompleteRaised("JSONDecodeError")
      [] outcome = "not_object" -> CompleteRaised("TypeError")
      [] outcome = "missing_key" -> CompleteRaised("KeyError")
      [] outcome = "empty_list" -> CompleteRaised("IndexError")
      [] outcome = "null_text" -> CompleteRaised("AttributeError")

\* provider.complete(prompt, max_tokens), given what the backend does
complete(p, outcome) ==
    CASE p = "ClaudeAPIProvider" -> ClaudeAPIComplete(outcome)
      [] p = "ClaudeCLIProvider" -> ClaudeCLIComplete(outcome)
      [] p = "OllamaProvider" -> OllamaComplete(outcome)
      [] p = "LMStudioProvider" -> LMStudioComplete(outcome)

\* the exceptions complete() of a provider lets out
CompleteRaises(p) == {complete(p, o).raised : o \in BackendOutcomes(p)} \ {""}

MaxCalls == 2

CompleteArgs == complete_log = <<>>

CompleteIdle == complete_log = <<>>

\* one call of provider.complete; the provider keeps no state between calls
CallComplete ==
    /\ Len(complete_log) < MaxCalls
    /\ \E outcome \in BackendOutcomes(provider) :
          complete_log' = Append(complete_log,
                                 [outcome |-> outcome, result |-> complete(provider, outcome)])
    /\ UNCHANGED <<provider, notComplete>>

\* What a call of provider.complete does.  The text it returns is kept as
\* what _extract_json makes of it: "garbage" is text in which no strategy
\* finds JSON (json.JSONDecodeError), "json" is text whose JSON is `value`.
Raises(exc) == [kind |-> "raise", exc |-> exc, value |-> <<>>]

Garbage == [kind |-> "garbage", exc |-> "", value |-> <<>>]

Json(value) == [kind |-> "json", exc |-> "", value |-> value]

NoCall == [kind |-> "none", exc |-> "", value |-> <<>>]

\* the exception that leaves "content = complete(...); _extract_json(content)",
\* "" when a value is returned
CallException(call) ==
    CASE call.kind = "raise" -> call.exc
      [] call.kind = "garbage" -> "JSONDecodeError"
      [] OTHER -> ""

(***************************************************************************)
(* Extraction records.  A key the dict does not hold is Missing; `json`    *)
(* tells what JSON value the record is ("object" for a dict).              *)
(***************************************************************************)
Missing == "<missing>"

Get(field, default) == IF field = Missing THEN default ELSE field

MaxExtractions == 3

TitleOf(k) == CASE k = 1 -> "Title 0" [] k = 2 -> "Title 1" [] k = 3 -> "Title 2"
                [] OTHER -> "Title n"

\* n extractions, those of `titled` with a title
Extractions(n, titled) ==
    [k \in 1..n |-> [json |-> "object",
                     title |-> IF k \in titled THEN TitleOf(k) ELSE Missing]]

(***************************************************************************)
(* group_topics.  An element of the model's answer is a group object with  *)
(* an "indices" list, a group object without that key, or no object at     *)
(* all.  Indices are those of Python: extraction i is extractions[i + 1].  *)
(***************************************************************************)
Group(title, indices) == [kind |-> "group", group_title |-> title, indices |-> indices]

GroupNoIndices(title) == [kind |-> "no_indices", group_title |-> title, indices |-> <<>>]

NotObject == [kind |-> "not_object", group_title |-> Missing, indices |-> <<>>]

IndexLists(n) == UNION {[1..len -> 0..n] : len \in 0..2}

GroupItems(n) ==
    {Group("A", idx) : idx \in IndexLists(n)} \cup {GroupNoIndices("B"), NotObject}

\* the JSON values a grouping answer may hold: a list of up to two
\* elements, or one element alone (not a list)
GroupAnswers(n) ==
    {[list |-> TRUE, items |-> items] :
        items \in UNION {[1..len -> GroupItems(n)] : len \in 0..2}}
    \cup {[list |-> FALSE, items |-> <<g>>] : g \in GroupItems(n)}

GroupCalls(p, n) ==
    {Raises(e) : e \in CompleteRaises(p)} \cup {Garbage}
        \cup {Json(v) : v \in GroupAnswers(n)}

\* for g in groups: for idx in g.get("indices", []): all_indices.add(idx)
AllIndices(gs) == UNION {Range(gs[k].indices) : k \in DOMAIN gs}

SingletonGroup(exts, i) ==
    Group(Get(exts[i + 1].title, "Untitled"), <<i>>)

\* the repair loop that names every added group "Untitled"
RECURSIVE RepairGroups_Untitled(_, _, _, _)
RepairGroups_Untitled(exts, i, all_indices, gs) ==
    IF i >= Len(exts) THEN gs
    ELSE IF i \notin all_indices
         THEN RepairGroups_Untitled(exts, i + 1, all_indices,
                                    Append(gs, Group("Untitled", <<i>>)))
         ELSE RepairGroups_Untitled(exts, i + 1, all_indices, gs)

\* the repair loop that starts at index 1
RECURSIVE RepairGroups_FromOne(_, _, _, _)
RepairGroups_FromOne(exts, i, all_indices, gs) ==
    IF i + 1 >= Len(exts) THEN gs
    ELSE IF (i + 1) \notin all_indices
         THEN RepairGroups_FromOne(exts, i + 1, all_indices,
                                   Append(gs, SingletonGroup(exts, i + 1)))
         ELSE RepairGroups_FromOne(exts, i + 1, all_indices, gs)

\* for i in range(len(extractions)): if i not in all_indices: groups.append(...)
RECURSIVE RepairGroups(_, _, _, _)
RepairGroups(exts, i, all_indices, gs) ==
    IF i >= Len(exts) THEN gs
    ELSE IF i \notin all_indices
         THEN RepairGroups(exts, i + 1, all_indices, Append(gs, SingletonGroup(exts, i)))
         ELSE RepairGroups(exts, i + 1, all_indices, gs)

\* the value of both except branches
AllSingletons(exts) == [k \in 1..Len(exts) |-> SingletonGroup(exts, k - 1)]

GroupTopicsCatches == {"JSONDecodeError", "KeyError", "TypeError", "RuntimeError"}

Returns(value) == [raised |-> "", value |-> value]

Raised(exc) == [raised |-> exc, value |-> <<>>]

\* group_topics(extractions), given what the provider call does
group_topics(exts, call) ==
    IF Len(exts) <= 1
    THEN Returns(<<SingletonGroup(exts, 0)>>)
    ELSE IF CallException(call) # ""
         THEN IF CallException(call) \in GroupTopicsCatches
              THEN Returns(AllSingletons(exts))
              ELSE Raised(CallException(call))
         ELSE LET gs == call.value.items
              IN  IF \E k \in DOMAIN gs : gs[k].kind = "not_object"
                  THEN Raised("AttributeError")
                  ELSE Returns(RepairGroups(exts, 0, AllIndices(gs), gs))

\* the provider is called only for two extractions or more
GroupCallsFor(p, exts) == IF Len(exts) <= 1 THEN {NoCall} ELSE GroupCalls(p, Len(exts))

GroupArgs ==
    /\ \E n \in 1..MaxExtractions : \E titled \in SUBSET (1..n) :
          extractions = Extractions(n, titled)
    /\ group_call = NoCall
    /\ groups = <<>>
    /\ group_exc = ""
    /\ groupPc = "args"

GroupIdle ==
    /\ extractions = <<>>
    /\ group_call = NoCall
    /\ groups = <<>>
    /\ group_exc = ""
    /\ groupPc = "idle"

CallGroupTopics ==
    /\ groupPc = "args"
    /\ \E call \in GroupCallsFor(provider, extractions) :
          LET r == group_topics(extractions, call)
          IN  /\ group_call' = call
              /\ groups' = r.value
              /\ group_exc' = r.raised
              /\ groupPc' = IF r.raised = "" THEN "returned" ELSE "raised"
    /\ UNCHANGED <<extractions, provider, notGroup>>

(***************************************************************************)
(* classify_messages and _classify_batch.  An element of the model's       *)
(* answer is a bare int, an object with an int "index" (and a "reason"),   *)
(* an object without "index", an object whose "index" is no number, or     *)
(* something that is neither int nor object.                               *)
(***************************************************************************)
CLASSIFICATION_BATCH_SIZE == 15

MaxBatches == 2

\* lengths of the message list: empty, short, and around each batch boundary
MessageCounts ==
    {0, 1, 2} \cup {k * CLASSIFICATION_BATCH_SIZE + r : k \in 1..(MaxBatches - 1), r \in {0, 1}}

ChannelMessages(n) == [k \in 1..n |-> [ts |-> k, relevance_reason |-> Missing]]

BareInt(idx) == [kind |-> "int", index |-> idx, reason |-> ""]

IndexObject(idx, reason) == [kind |-> "dict", index |-> idx, reason |-> reason]

\* item.get("index", -1)
ObjectNoIndex == [kind |-> "dict", index |-> -1, reason |-> "why"]

ObjectBadIndex == [kind |-> "dict_bad_index", index |-> 0, reason |-> "why"]

OtherItem == [kind |-> "other", index |-> 0, reason |-> ""]

ClassifyItems(len) ==
    {BareInt(idx) : idx \in {-1, 0, len - 1, len}}
        \cup {IndexObject(idx, "why") : idx \in {0, len}}
        \cup {ObjectNoIndex, ObjectBadIndex, OtherItem}

\* a list of up to two elements, or one element alone (results = [results])
ClassifyAnswers(len) ==
    {[list |-> TRUE, items |-> items] :
        items \in UNION {[1..n -> ClassifyItems(len)] : n \in 0..2}}
    \cup {[list |-> FALSE, items |-> <<it>>] : it \in {BareInt(0), IndexObject(0, "why")}}

ClassifyCalls(p, len) ==
    {Raises(e) : e \in CompleteRaises(p)} \cup {Garbage}
        \cup {Json(v) : v \in ClassifyAnswers(len)}

\* messages[idx] of Python: a negative idx counts from the end
PyIndex(batch, idx) == IF idx >= 0 THEN batch[idx + 1] ELSE batch[Len(batch) + idx + 1]

\* the range test without its lower bound: messages[idx] then reads a
\* negative idx from the end of the batch
InRange_NoLowerBound(idx, len) == idx < len /\ -len <= idx

\* 0 <= idx < len(messages)
InRange(idx, len) == 0 <= idx /\ idx < len

\* msg = messages[idx].copy(); msg["relevance_reason"] = reason
WithReason(msg, reason) == [msg EXCEPT !.relevance_reason = reason]

\* for item in results: ...
RECURSIVE ClassifyWalk(_, _, _, _)
ClassifyWalk(batch, items, k, acc) ==
    IF k > Len(items) THEN acc
    ELSE LET item == items[k]
         IN  IF item.kind \notin {"int", "dict"}
             THEN ClassifyWalk(batch, items, k + 1, acc)
             ELSE IF InRange(item.index, Len(batch))
                  THEN ClassifyWalk(batch, items, k + 1,
                                    Append(acc, WithReason(PyIndex(batch, item.index), item.reason)))
                  ELSE ClassifyWalk(batch, items, k + 1, acc)

ClassifyBatchCatches ==
    {"JSONDecodeError", "KeyError", "IndexError", "TypeError", "RuntimeError"}

\* _classify_batch(messages, topic), given what the provider call does
classify_batch(batch, call) ==
    IF CallException(call) # ""
    THEN IF CallException(call) \in ClassifyBatchCatches
         THEN Returns(<<>>)
         ELSE Raised(CallException(call))
    ELSE LET items == call.value.items
         IN  \* 0 <= idx on an index that is no number: TypeError, caught
             IF \E k \in DOMAIN items : items[k].kind = "dict_bad_index"
             THEN Returns(<<>>)
             ELSE Returns(ClassifyWalk(batch, items, 1, <<>>))

\* messages[i : i + CLASSIFICATION_BATCH_SIZE]
BatchAt(msgs, i) == SubSeq(msgs, i + 1, Min(i + CLASSIFICATION_BATCH_SIZE, Len(msgs)))

ClassifyArgs ==
    /\ \E n \in MessageCounts : channel_messages = ChannelMessages(n)
    /\ batch_start = 0
    /\ relevant = <<>>
    /\ batch_results = <<>>
    /\ classify_call = NoCall
    /\ classify_exc = ""
    /\ classifyPc = "loop"

ClassifyIdle ==
    /\ channel_messages = <<>>
    /\ batch_start = 0
    /\ relevant = <<>>
    /\ batch_results = <<>>
    /\ classify_call = NoCall
    /\ classify_exc = ""
    /\ classifyPc = "idle"

\* one turn of the loop of classify_messages
ClassifyBatch ==
    /\ classifyPc = "loop"
    /\ batch_start < Len(channel_messages)
    /\ LET batch == BatchAt(channel_messages, batch_start)
       IN  \E call \in ClassifyCalls(provider, Len(batch)) :
              LET r == classify_batch(batch, call)
              IN  /\ classify_call' = call
                  /\ IF r.raised = ""
                     THEN /\ relevant' = relevant \o r.value
                          /\ batch_results' = Append(batch_results, r.value)
                          /\ batch_start' = batch_start + CLASSIFICATION_BATCH_SIZE
                          /\ UNCHANGED <<classify_exc, classifyPc>>
                     ELSE /\ classify_exc' = r.raised
                          /\ classifyPc' = "raised"
                          /\ UNCHANGED <<relevant, batch_results, batch_start>>
    /\ UNCHANGED <<channel_messages, provider, notClassify>>

\* return relevant
ClassifyReturn ==
    /\ classifyPc = "loop"
    /\ batch_start >= Len(channel_messages)
    /\ classifyPc' = "returned"
    /\ UNCHANGED <<channel_messages, batch_start, relevant, batch_results,
                   classify_call, classify_exc, provider, notClassify>>

(***************************************************************************)
(* extract_knowledge and the loop of main that calls it once per           *)
(* deduplicated unit (slack_search.py 293-311).                            *)
(***************************************************************************)
FALLBACK_EXTRACTION ==
    [json |-> "object",
     title |-> "Untitled Article",
     content |-> "Could not extract knowledge from this conversation.",
     category |-> "FAQ",
     tags |-> <<>>,
     source_summary |-> "Unable to extract."]

MaxDeduped == 3

\* the JSON values an extraction answer may hold: an object with every key,
\* an object without "title", an array, a number
ExtractionAnswers ==
    {[json |-> "object", title |-> "Reset a password", content |-> "Open settings.",
      category |-> "How-To", tags |-> <<"password">>, source_summary |-> "A reset."],
     [json |-> "object", title |-> Missing, content |-> "Open settings.",
      category |-> "How-To", tags |-> <<"password">>, source_summary |-> "A reset."],
     [json |-> "array", title |-> Missing, content |-> Missing,
      category |-> Missing, tags |-> <<>>, source_summary |-> Missing],
     [json |-> "number", title |-> Missing, content |-> Missing,
      category |-> Missing, tags |-> <<>>, source_summary |-> Missing]}

ExtractCalls(p) ==
    {Raises(e) : e \in CompleteRaises(p)} \cup {Garbage}
        \cup {Json(v) : v \in ExtractionAnswers}

ExtractKnowledgeCatches == {"JSONDecodeError", "KeyError", "RuntimeError"}

\* extract_knowledge(...), given what the provider call does
extract_knowledge(call) ==
    IF CallException(call) # ""
    THEN IF CallException(call) \in ExtractKnowledgeCatches
         THEN Returns(FALLBACK_EXTRACTION)
         ELSE Raised(CallException(call))
    ELSE Returns(call.value)

\* the body of the loop of main after extract_knowledge returned:
\* extraction.get("title", ...) and extraction["_source_..."] = ... need a dict
AttachSource(extraction, idx) ==
    IF extraction.json = "object"
    THEN Returns([record |-> extraction, source_unit |-> idx])
    ELSE Raised("AttributeError")

ExtractArgs ==
    /\ n_deduped \in 1..MaxDeduped
    /\ ext_idx = 0
    /\ all_extractions = <<>>
    /\ extract_call = NoCall
    /\ extract_exc = ""
    /\ extractPc = "loop"

ExtractIdle ==
    /\ n_deduped = 0
    /\ ext_idx = 0
    /\ all_extractions = <<>>
    /\ extract_call = NoCall
    /\ extract_exc = ""
    /\ extractPc = "idle"

\* one turn of: for ext_idx, cluster_data in enumerate(deduped)
ExtractUnit ==
    /\ extractPc = "loop"
    /\ ext_idx < n_deduped
    /\ \E call \in ExtractCalls(provider) :
          LET r == extract_knowledge(call)
              a == IF r.raised = "" THEN AttachSource(r.value, ext_idx) ELSE r
          IN  /\ extract_call' = call
              /\ IF a.raised = ""
                 THEN /\ all_extractions' = Append(all_extractions, a.value)
                      /\ ext_idx' = ext_idx + 1
                      /\ UNCHANGED <<extract_exc, extractPc>>
                 ELSE /\ extract_exc' = a.raised
                      /\ extractPc' = "raised"
                      /\ UNCHANGED <<all_extractions, ext_idx>>
    /\ UNCHANGED <<n_deduped, provider, notExtract>>

\* the loop is over: main goes on to grouping
ExtractDone ==
    /\ extractPc = "loop"
    /\ ext_idx >= n_deduped
    /\ extractPc' = "extracted"
    /\ UNCHANGED <<n_deduped, ext_idx, all_extractions, extract_call, extract_exc,
                   provider, notExtract>>

(***************************************************************************)
(* setup() and main().  The provider is constructed by setup() before main *)
(* does anything else; main then scrapes or fetches the channels,          *)
(* classifies each channel that has messages, returns early with an empty  *)
(* report when nothing was found, and otherwise processes the units,       *)
(* groups and synthesizes (knowledge base only) and writes the report.     *)
(* args.format, args.no_cache, args.cache_dir (slack_search.py) and        *)
(* args.channel_list, args.days, args.slack_token (slack_injury_search.py) *)
(* are taken as set by the argument parser.  A channel is kept as the      *)
(* number of its messages, a classification as the number of messages it   *)
(* returned.                                                               *)
(***************************************************************************)
RunModes == {"kb", "incident"}

BackendStates == {"reachable", "refused", "timeout"}

MaxChannels == 2

MaxChannelMessages == 2

\* ClaudeAPIProvider.__init__: builds the client, contacts nothing
ClaudeAPIInit(backend) == Returns("ClaudeAPIProvider")

\* ClaudeCLIProvider.__init__: `claude --version` with timeout=10, check=True;
\* FileNotFoundError and CalledProcessError become RuntimeError
ClaudeCLIInit(backend) ==
    CASE backend = "reachable" -> Returns("ClaudeCLIProvider")
      [] backend = "refused" -> Raised("RuntimeError")
      [] backend = "timeout" -> Raised("TimeoutExpired")

\* OllamaProvider.__init__: GET /api/tags with timeout=5; URLError and
\* OSError (a socket timeout is one) become RuntimeError
OllamaInit(backend) ==
    IF backend = "reachable" THEN Returns("OllamaProvider") ELSE Raised("RuntimeError")

\* LMStudioProvider.__init__: GET /v1/models with timeout=5, likewise
LMStudioInit(backend) ==
    IF backend = "reachable" THEN Returns("LMStudioProvider") ELSE Raised("RuntimeError")

\* _build_provider_from_args / _setup_provider: the constructor chosen
ConstructProvider(p, backend) ==
    CASE p = "ClaudeAPIProvider" -> ClaudeAPIInit(backend)
      [] p = "ClaudeCLIProvider" -> ClaudeCLIInit(backend)
      [] p = "OllamaProvider" -> OllamaInit(backend)
      [] p = "LMStudioProvider" -> LMStudioInit(backend)

RECURSIVE Sum(_)
Sum(counts) == IF counts = <<>> THEN 0 ELSE Head(counts) + Sum(Tail(counts))

\* where main goes next, and what it wrote
Goes(pc, written) == [pc |-> pc, report |-> written]

\* an early return that forgets report.write
ReturnIfNothingRelevant_NoWrite(total_relevant) ==
    IF total_relevant = 0 THEN Goes("done", "none") ELSE Goes("units", "none")

\* if total_relevant == 0: report.write(...); return
ReturnIfNothingRelevant(total_relevant) ==
    IF total_relevant = 0 THEN Goes("done", "empty") ELSE Goes("units", "none")

\* if total_messages == 0: report.write(...); return
ReturnIfNoMessages(total_messages) ==
    IF total_messages = 0 THEN Goes("done", "empty") ELSE Goes("classify", "none")

\* the exceptions a call lets out of the analyzer method that catches `catches`
Escapes(p, catches) == CompleteRaises(p) \ catches

SynthesizeArticleCatches == {"JSONDecodeError", "KeyError", "RuntimeError"}

\* analyzer.summarize_incident: "same fallback-on-failure policy" as
\* extract_knowledge
SummarizeIncidentEscapes(p) == Escapes(p, ExtractKnowledgeCatches)

\* what ends the processing of the units: an exception of the provider that
\* extract_knowledge does not catch, or extraction.get on an answer that is
\* no object
UnitExceptions(mode, p) ==
    IF mode = "kb" THEN Escapes(p, ExtractKnowledgeCatches) \cup {"AttributeError"}
    ELSE SummarizeIncidentEscapes(p)

MainArgs ==
    /\ run_mode \in RunModes
    /\ args_login \in (IF run_mode = "kb" THEN BOOLEAN ELSE {FALSE})
    /\ args_provider \in Providers
    /\ backend_state \in BackendStates
    \* parse_args insists on one URL at least; resolve_channel_ids may find
    \* none of the channels
    /\ \E n \in (IF run_mode = "kb" THEN 1 ELSE 0)..MaxChannels :
          all_channel_data \in [1..n -> 0..MaxChannelMessages]
    /\ mainPc = "setup"
    /\ relevant_by_channel = <<>>
    /\ report_written = "none"
    /\ provider_calls = {}
    /\ steps_started = {}
    /\ main_exc = ""

MainIdle ==
    /\ run_mode = "kb"
    /\ args_login = FALSE
    /\ args_provider = "ClaudeCLIProvider"
    /\ backend_state = "reachable"
    /\ all_channel_data = <<>>
    /\ mainPc = "idle"
    /\ relevant_by_channel = <<>>
    /\ report_written = "none"
    /\ provider_calls = {}
    /\ steps_started = {}
    /\ main_exc = ""

\* args, provider = setup(): with --login no provider is built and main
\* hands over to do_login
Setup ==
    /\ mainPc = "setup"
    /\ IF args_login
       THEN /\ mainPc' = "login"
            /\ UNCHANGED <<provider, main_exc>>
       ELSE LET r == ConstructProvider(args_provider, backend_state)
            IN  IF r.raised = ""
                THEN /\ provider' = r.value
                     /\ mainPc' = "channels"
                     /\ UNCHANGED main_exc
                ELSE /\ main_exc' = r.raised
                     /\ mainPc' = "raised"
                     /\ UNCHANGED provider
    /\ UNCHANGED <<run_mode, args_login, args_provider, backend_state, all_channel_data,
                   relevant_by_channel, report_written, provider_calls, steps_started,
                   notMain>>

\* step 1 (and step 2 of the incident report): the channels are scraped,
\* loaded or fetched; the incident report exits when no channel resolved
GetChannels ==
    /\ mainPc = "channels"
    /\ IF run_mode = "incident" /\ all_channel_data = <<>>
       THEN /\ mainPc' = "exit"
            /\ main_exc' = "SystemExit"
            /\ UNCHANGED <<report_written, steps_started>>
       ELSE LET next == ReturnIfNoMessages(Sum(all_channel_data))
            IN  /\ steps_started' = steps_started \cup {"scrape"}
                /\ mainPc' = next.pc
                /\ report_written' = next.report
                /\ UNCHANGED main_exc
    /\ UNCHANGED <<run_mode, args_login, args_provider, backend_state, all_channel_data,
                   relevant_by_channel, provider_calls, provider, notMain>>

\* one turn of: for url, messages in all_channel_data.items()
ClassifyChannel ==
    /\ mainPc = "classify"
    /\ Len(relevant_by_channel) < Len(all_channel_data)
    /\ LET count == all_channel_data[Len(relevant_by_channel) + 1]
       IN  IF count = 0
           THEN \* if not messages: continue
                /\ relevant_by_channel' = Append(relevant_by_channel, 0)
                /\ steps_started' = steps_started \cup {"classify"}
                /\ UNCHANGED <<provider_calls, mainPc, main_exc>>
           ELSE /\ provider_calls' = provider_calls \cup {"classify"}
                /\ steps_started' = steps_started \cup {"classify"}
                /\ \/ \E n_relevant \in 0..count :
                         /\ relevant_by_channel' = Append(relevant_by_channel, n_relevant)
                         /\ UNCHANGED <<mainPc, main_exc>>
                   \/ \E exc \in Escapes(provider, ClassifyBatchCatches) :
                         /\ main_exc' = exc
                         /\ mainPc' = "raised"
                         /\ UNCHANGED relevant_by_channel
    /\ UNCHANGED <<run_mode, args_login, args_provider, backend_state, all_channel_data,
                   report_written, provider, notMain>>

\* total_relevant = sum(len(v) for v in relevant_by_channel.values())
ClassifyDone ==
    /\ mainPc = "classify"
    /\ Len(relevant_by_channel) = Len(all_channel_data)
    /\ LET next == ReturnIfNothingRelevant(Sum(relevant_by_channel))
       IN  /\ mainPc' = next.pc
           /\ report_written' = next.report
    /\ UNCHANGED <<run_mode, args_login, args_provider, backend_state, all_channel_data,
                   relevant_by_channel, provider_calls, steps_started, main_exc,
                   provider, notMain>>

\* clustering, context, dedup, and one provider call per unit
ProcessUnits ==
    /\ mainPc = "units"
    /\ steps_started' = steps_started \cup {"units"}
    /\ provider_calls' = provider_calls \cup {IF run_mode = "kb" THEN "extract" ELSE "summarize"}
    /\ \/ /\ mainPc' = IF run_mode = "kb" THEN "group" ELSE "write"
          /\ UNCHANGED main_exc
       \/ \E exc \in UnitExceptions(run_mode, provider) :
             /\ main_exc' = exc
             /\ mainPc' = "raised"
    /\ UNCHANGED <<run_mode, args_login, args_provider, backend_state, all_channel_data,
                   relevant_by_channel, report_written, provider, notMain>>

\* groups = analyzer.group_topics(all_extractions): the provider is called
\* for two extractions or more, and two units need two relevant messages
GroupStep ==
    /\ mainPc = "group"
    /\ steps_started' = steps_started \cup {"group"}
    /\ \/ /\ mainPc' = "synthesize"
          /\ UNCHANGED <<provider_calls, main_exc>>
       \/ /\ Sum(relevant_by_channel) >= 2
          /\ provider_calls' = provider_calls \cup {"group"}
          /\ \/ /\ mainPc' = "synthesize"
                /\ UNCHANGED main_exc
             \/ \E exc \in Escapes(provider, GroupTopicsCatches) \cup {"AttributeError"} :
                   /\ main_exc' = exc
                   /\ mainPc' = "raised"
    /\ UNCHANGED <<run_mode, args_login, args_provider, backend_state, all_channel_data,
                   relevant_by_channel, report_written, provider, notMain>>

\* the loop over the groups: synthesize_article calls the provider for a
\* group of two extractions or more
SynthesizeStep ==
    /\ mainPc = "synthesize"
    /\ steps_started' = steps_started \cup {"synthesize"}
    /\ \/ /\ mainPc' = "write"
          /\ UNCHANGED <<provider_calls, main_exc>>
       \/ /\ Sum(relevant_by_channel) >= 2
          /\ provider_calls' = provider_calls \cup {"synthesize"}
          /\ \/ /\ mainPc' = "write"
                /\ UNCHANGED main_exc
             \/ \E exc \in Escapes(provider, SynthesizeArticleCatches) \cup {"AttributeError"} :
                   /\ main_exc' = exc
                   /\ mainPc' = "raised"
    /\ UNCHANGED <<run_mode, args_login, args_provider, backend_state, all_channel_data,
                   relevant_by_channel, report_written, provider, notMain>>

\* output_path = report.write(...)
WriteReport ==
    /\ mainPc = "write"
    /\ report_written' = "full"
    /\ mainPc' = "done"
    /\ UNCHANGED <<run_mode, args_login, args_provider, backend_state, all_channel_data,
                   relevant_by_channel, provider_calls, steps_started, main_exc,
                   provider, notMain>>

(***************************************************************************)
(* _extract_json.  A text is a sequence of lexical pieces:                 *)
(*   "[" "]" "{" "}" ","   themselves                                      *)
(*   "0", "1"              number literals                                 *)
(*   "s"                   a string literal without brackets, "x"          *)
(*   "s["  "s]"            a string literal that holds one "[" / one "]"   *)
(*   "k"                   an object key with its colon, "index":          *)
(*   "w"                   a word of prose                                 *)
(*   "fence"               three backquotes,  "json" the tag after them    *)
(*   "\n"                  whitespace                                      *)
(* The value json.loads returns is kept as the pieces of the text it       *)
(* parsed, whitespace removed.                                             *)
(***************************************************************************)
IsSpace(piece) == piece = "\n"

Scalars == {"0", "1", "s", "s[", "s]"}

\* text.strip()
RECURSIVE Strip(_)
Strip(text) ==
    IF text = <<>> THEN text
    ELSE IF IsSpace(Head(text)) THEN Strip(Tail(text))
    ELSE IF IsSpace(Last(text)) THEN Strip(SubSeq(text, 1, Len(text) - 1))
    ELSE text

\* the JSON grammar: each operator takes the position where a value, the
\* rest of an array or the rest of an object starts, and gives the position
\* after it, or 0 when the text is no JSON there
RECURSIVE ParseValue(_, _), ParseElements(_, _), ParseMembers(_, _)
ParseValue(t, i) ==
    IF i = 0 \/ i > Len(t) THEN 0
    ELSE IF t[i] \in Scalars THEN i + 1
    ELSE IF t[i] = "[" THEN
         (IF i < Len(t) /\ t[i + 1] = "]" THEN i + 2 ELSE ParseElements(t, i + 1))
    ELSE IF t[i] = "{" THEN
         (IF i < Len(t) /\ t[i + 1] = "}" THEN i + 2 ELSE ParseMembers(t, i + 1))
    ELSE 0

ParseElements(t, i) ==
    LET j == ParseValue(t, i)
    IN  IF j = 0 \/ j > Len(t) THEN 0
        ELSE IF t[j] = "," THEN ParseElements(t, j + 1)
        ELSE IF t[j] = "]" THEN j + 1
        ELSE 0

ParseMembers(t, i) ==
    IF i > Len(t) \/ t[i] # "k" THEN 0
    ELSE LET j == ParseValue(t, i + 1)
         IN  IF j = 0 \/ j > Len(t) THEN 0
             ELSE IF t[j] = "," THEN ParseMembers(t, j + 1)
             ELSE IF t[j] = "}" THEN j + 1
             ELSE 0

NoSpace(piece) == ~IsSpace(piece)

\* json.loads(text): one value and nothing else but whitespace
json_loads(text) ==
    LET t == SelectSeq(text, NoSpace)
    IN  IF ParseValue(t, 1) = Len(t) + 1 THEN Returns(t) ELSE Raised("JSONDecodeError")

\* the piece holds the character ch
HoldsChar(piece, ch) ==
    \/ piece = ch
    \/ ch = "[" /\ piece = "s["
    \/ ch = "]" /\ piece = "s]"

\* text.find(ch) as a position, 0 for -1
Find(text, ch) ==
    IF \E i \in DOMAIN text : HoldsChar(text[i], ch)
    THEN CHOOSE i \in DOMAIN text :
            HoldsChar(text[i], ch) /\ \A j \in 1..(i - 1) : ~HoldsChar(text[j], ch)
    ELSE 0

\* text[start : i + 1] where start and i are the places of the characters
\* open_ch and close_ch: a piece cut inside a string literal is no JSON
Slice(text, start, i, open_ch, close_ch) ==
    [k \in 1..(i - start + 1) |->
        IF k = 1 /\ text[start] # open_ch THEN "cut"
        ELSE IF k = i - start + 1 /\ text[i] # close_ch THEN "cut"
        ELSE text[start + k - 1]]

\* strategy 2: re.search of fence, optional "json", whitespace, the shortest
\* interior, fence; then json.loads(match.group(1).strip())
Fences(text) == {i \in DOMAIN text : text[i] = "fence"}

FencedInterior(text) ==
    LET first == CHOOSE i \in Fences(text) : \A j \in Fences(text) : i <= j
        second == CHOOSE i \in Fences(text) \ {first} :
                     \A j \in Fences(text) \ {first} : i <= j
        from == IF first + 1 < second /\ text[first + 1] = "json" THEN first + 2
                ELSE first + 1
    IN  Strip(SubSeq(text, from, second - 1))

Strategy2(text) ==
    IF Cardinality(Fences(text)) >= 2
    THEN json_loads(FencedInterior(text))
    ELSE Raised("JSONDecodeError")

\* strategy 3 for one kind of bracket: the depth walk from the first
\* open_ch; the slice that ends where the depth is back at zero is parsed,
\* and a slice that is no JSON ends the walk
RECURSIVE DepthWalk(_, _, _, _, _, _)
DepthWalk(text, start, i, depth, open_ch, close_ch) ==
    IF i > Len(text) THEN Raised("JSONDecodeError")
    ELSE IF HoldsChar(text[i], open_ch)
         THEN DepthWalk(text, start, i + 1, depth + 1, open_ch, close_ch)
    ELSE IF HoldsChar(text[i], close_ch)
         THEN IF depth - 1 = 0
              THEN json_loads(Slice(text, start, i, open_ch, close_ch))
              ELSE DepthWalk(text, start, i + 1, depth - 1, open_ch, close_ch)
    ELSE DepthWalk(text, start, i + 1, depth, open_ch, close_ch)

Strategy3(text, open_ch, close_ch) ==
    LET start == Find(text, open_ch)
    IN  IF start = 0 THEN Raised("JSONDecodeError")
        ELSE DepthWalk(text, start, start, 0, open_ch, close_ch)

\* for open_ch, close_ch in [("[", "]"), ("{", "}")]
Strategy3Both(text) ==
    LET brackets == Strategy3(text, "[", "]")
    IN  IF brackets.raised = "" THEN brackets ELSE Strategy3(text, "{", "}")

extract_json(raw_text) ==
    LET text == Strip(raw_text)
        direct == json_loads(text)
        fenced == Strategy2(text)
    IN  IF direct.raised = "" THEN direct
        ELSE IF fenced.raised = "" THEN fenced
        ELSE Strategy3Both(text)

(***************************************************************************)
(* The texts a JSON value is handed to _extract_json in                    *)
(***************************************************************************)
MaxProse == 2

\* [], [0], [0,0], [[0]], [{"index":0,"reason":"x"}], two objects, and
\* objects whose string holds a bracket
JsonArrays ==
    {<<"[", "]">>,
     <<"[", "0", "]">>,
     <<"[", "0", ",", "0", "]">>,
     <<"[", "[", "0", "]", "]">>,
     <<"[", "{", "k", "0", ",", "k", "s", "}", "]">>,
     <<"[", "{", "k", "0", "}", ",", "{", "k", "0", "}", "]">>,
     <<"[", "{", "k", "s]", "}", "]">>,
     <<"[", "{", "k", "s[", "}", "]">>}

\* {"k":[0]}, {"k":"x","k":[0,0]}, {"k":0}
JsonObjects ==
    {<<"{", "k", "[", "0", "]", "}">>,
     <<"{", "k", "s", ",", "k", "[", "0", ",", "0", "]", "}">>,
     <<"{", "k", "0", "}">>}

JsonValues == JsonArrays \cup JsonObjects

ProsePieces == {"w", "1", "[", "]", "{", "}"}

\* prose starts with a word
Prose == {<<"w">> \o rest : rest \in UNION {[1..n -> ProsePieces] : n \in 0..MaxProse}}

FenceTags == {<<"json">>, <<>>}

RawText(array) == array

FencedText(array, tag) == <<"fence">> \o tag \o <<"\n">> \o array \o <<"\n", "fence">>

ProseText(array, before, after) == before \o <<"\n">> \o array \o <<"\n">> \o after

NotRun == [raised |-> "not run", value |-> <<>>]

JsonArgs ==
    /\ json_value \in JsonValues
    /\ leading_prose \in Prose
    /\ trailing_prose \in {<<"w">>, <<"w", "]">>, <<"w", "[", "1", "]">>}
    /\ fence_tag \in FenceTags
    /\ raw_result = NotRun
    /\ fenced_result = NotRun
    /\ prose_result = NotRun

JsonIdle ==
    /\ json_value = <<>>
    /\ leading_prose = <<>>
    /\ trailing_prose = <<>>
    /\ fence_tag = <<>>
    /\ raw_result = NotRun
    /\ fenced_result = NotRun
    /\ prose_result = NotRun

ExtractRaw ==
    /\ json_value # <<>>
    /\ raw_result = NotRun
    /\ raw_result' = extract_json(RawText(json_value))
    /\ UNCHANGED <<json_value, leading_prose, trailing_prose, fence_tag, fenced_result,
                   prose_result, notJson>>

ExtractFenced ==
    /\ json_value # <<>>
    /\ fenced_result = NotRun
    /\ fenced_result' = extract_json(FencedText(json_value, fence_tag))
    /\ UNCHANGED <<json_value, leading_prose, trailing_prose, fence_tag, raw_result,
                   prose_result, notJson>>

ExtractProse ==
    /\ json_value # <<>>
    /\ prose_result = NotRun
    /\ prose_result' = extract_json(ProseText(json_value, leading_prose, trailing_prose))
    /\ UNCHANGED <<json_value, leading_prose, trailing_prose, fence_tag, raw_result,
                   fenced_result, notJson>>

(***************************************************************************)
(* Context gathering.  Scrape mode (slack_search.py): gather_context takes *)
(* a window of the channel's message list around the cluster.  API mode    *)
(* (slack_injury_search.py main): the context is what Slack returns around *)
(* the first and last message of the cluster and for the threads the       *)
(* cluster refers to.  Indices are Python's (0-based) where the code       *)
(* computes with them.                                                     *)
(***************************************************************************)
CONTEXT_WINDOW == 15

MaxAllMessages == 3

MaxClusterLen == 2

\* the default window and two that are smaller than the modelled lists
WindowValues == {0, 1, CONTEXT_WINDOW}

\* a ts that no message of the channel list has
ForeignTs == 4

SetMin(S) == CHOOSE x \in S : \A y \in S : x <= y

SetMax(S) == CHOOSE x \in S : \A y \in S : x >= y

\* the indices of the cluster's messages in all_messages
IndicesOf(cluster, all_messages) ==
    LET cluster_ts == {cluster[k].ts : k \in DOMAIN cluster}
    IN  {i - 1 : i \in {k \in DOMAIN all_messages : all_messages[k].ts \in cluster_ts}}

\* gather_context whose slice ends at max(indices) + window
gather_context_ShortAfter(cluster, all_messages, window) ==
    IF all_messages = <<>> \/ cluster = <<>> THEN cluster
    ELSE LET indices == IndicesOf(cluster, all_messages)
         IN  IF indices = {} THEN cluster
             ELSE LET first_idx == Max(0, SetMin(indices) - window)
                      last_idx == Min(Len(all_messages), SetMax(indices) + window)
                  IN  SubSeq(all_messages, first_idx + 1, last_idx)

gather_context(cluster, all_messages, window) ==
    IF all_messages = <<>> \/ cluster = <<>> THEN cluster
    ELSE LET indices == IndicesOf(cluster, all_messages)
         IN  IF indices = {} THEN cluster
             ELSE LET first_idx == Max(0, SetMin(indices) - window)
                      last_idx == Min(Len(all_messages), SetMax(indices) + window + 1)
                  IN  SubSeq(all_messages, first_idx + 1, last_idx)

\* thread_ts of a message without one (m.get("thread_ts") is falsy)
NoThread == 0

\* {first_ts, last_ts}
AnchorsOf(cluster) == {cluster[1].ts, Last(cluster).ts}

\* the threads the cluster refers to: thread_ts of its messages, and the ts
\* of its messages that have replies
ThreadTssOf(cluster) ==
    {cluster[k].thread_ts : k \in {j \in DOMAIN cluster : cluster[j].thread_ts # NoThread}}
        \cup {cluster[k].ts : k \in {j \in DOMAIN cluster : cluster[j].reply_count > 0}}

\* the messages put into all_context, in the order of the fetches
RECURSIVE FetchedInOrder(_, _)
FetchedInOrder(keys, fetched) ==
    IF keys = <<>> THEN <<>> ELSE fetched[Head(keys)] \o FetchedInOrder(Tail(keys), fetched)

AllContext(cluster, surrounding, thread_msgs) ==
    DictByTs(FetchedInOrder(AscendingSeq(AnchorsOf(cluster)), surrounding)
                 \o FetchedInOrder(AscendingSeq(ThreadTssOf(cluster)), thread_msgs),
             1, <<>>)

\* the API-mode context without the fallback to the cluster
api_context_NoFallback(cluster, surrounding, thread_msgs) ==
    SortByTs(AllContext(cluster, surrounding, thread_msgs))

\* sorted(all_context.values()); if not context_messages: context_messages = cluster
api_context(cluster, surrounding, thread_msgs) ==
    LET context_messages == SortByTs(AllContext(cluster, surrounding, thread_msgs))
    IN  IF context_messages = <<>> THEN cluster ELSE context_messages

\* what one fetch can return: nothing (also after a SlackApiError), or
\* messages of the channel
FetchResults ==
    {<<>>, <<ChannelMessage(1)>>, <<ChannelMessage(2), ChannelMessage(3)>>}

\* a message of a cluster in scrape mode
ScrapeClusterMessages == {ChannelMessage(ts) : ts \in ChannelTs \cup {ForeignTs}}

\* a message of a cluster in API mode
ApiClusterMessages ==
    [ts : {1, 2}, thread_ts : {NoThread, 1}, reply_count : {0, 1}]

\* cluster_messages returns clusters in ascending ts order
AscendingTs(cluster) ==
    \A k \in 1..(Len(cluster) - 1) : cluster[k].ts <= cluster[k + 1].ts

ContextArgsScrape ==
    /\ \E n \in 0..MaxAllMessages :
           \E all \in [1..n -> {ChannelMessage(ts) : ts \in ChannelTs}] :
               gc_all_messages = all
    /\ \E n \in 0..MaxClusterLen :
           \E cl \in [1..n -> ScrapeClusterMessages] : gc_cluster = cl
    /\ gc_window \in WindowValues
    /\ surrounding_fetched = <<>>
    /\ thread_fetched = <<>>
    /\ gathered_context = <<>>
    /\ contextPc = "scrape args"

ContextArgsApi ==
    /\ \E n \in 1..MaxClusterLen :
           \E cl \in [1..n -> ApiClusterMessages] :
               /\ AscendingTs(cl)
               /\ gc_cluster = cl
    /\ surrounding_fetched \in [AnchorsOf(gc_cluster) -> FetchResults]
    /\ thread_fetched \in [ThreadTssOf(gc_cluster) -> FetchResults]
    /\ gc_all_messages = <<>>
    /\ gc_window = CONTEXT_WINDOW
    /\ gathered_context = <<>>
    /\ contextPc = "api args"

ContextArgs == ContextArgsScrape \/ ContextArgsApi

ContextIdle ==
    /\ gc_cluster = <<>>
    /\ gc_all_messages = <<>>
    /\ gc_window = CONTEXT_WINDOW
    /\ surrounding_fetched = <<>>
    /\ thread_fetched = <<>>
    /\ gathered_context = <<>>
    /\ contextPc = "idle"

\* slack_search.py main: context_messages = gather_context(cluster, all_messages)
GatherContextScrape ==
    /\ contextPc = "scrape args"
    /\ gathered_context' = gather_context(gc_cluster, gc_all_messages, gc_window)
    /\ contextPc' = "scrape"
    /\ UNCHANGED <<gc_cluster, gc_all_messages, gc_window, surrounding_fetched,
                   thread_fetched, notContext>>

\* slack_injury_search.py main: the fetches and the fallback
GatherContextApi ==
    /\ contextPc = "api args"
    /\ gathered_context' = api_context(gc_cluster, surrounding_fetched, thread_fetched)
    /\ contextPc' = "api"
    /\ UNCHANGED <<gc_cluster, gc_all_messages, gc_window, surrounding_fetched,
                   thread_fetched, notContext>>

(***************************************************************************)
(* cluster_messages on a list and on the same messages in another order    *)
(***************************************************************************)
MaxPermMsgs == 3

Orderings(n) == {f \in [1..n -> 1..n] : \A i, j \in 1..n : f[i] = f[j] => i = j}

Permuted(msgs, f) == [k \in DOMAIN msgs |-> msgs[f[k]]]

\* messages without a thread or in the one thread t1
PermRawMessages(n) == [1..n -> [ts : TsValues, thread_ts : {"", "t1"}]]

PermArgs ==
    /\ \E n \in 0..MaxPermMsgs : \E raw \in PermRawMessages(n) :
           /\ perm_messages = WithIds(raw)
           /\ perm \in Orderings(n)
    /\ perm_gap \in GapValues
    /\ clusters_original = <<>>
    /\ clusters_permuted = <<>>
    /\ permPc = "args"

PermIdle ==
    /\ perm_messages = <<>>
    /\ perm = <<>>
    /\ perm_gap = 0
    /\ clusters_original = <<>>
    /\ clusters_permuted = <<>>
    /\ permPc = "idle"

ClusterBothScrape ==
    /\ permPc = "args"
    /\ clusters_original' = cluster_messages_scrape(perm_messages, perm_gap)
    /\ clusters_permuted' = cluster_messages_scrape(Permuted(perm_messages, perm), perm_gap)
    /\ permPc' = "scrape"
    /\ UNCHANGED <<perm_messages, perm, perm_gap, notPerm>>

ClusterBothApi ==
    /\ permPc = "args"
    /\ clusters_original' = cluster_messages_api(perm_messages, perm_gap)
    /\ clusters_permuted' = cluster_messages_api(Permuted(perm_messages, perm), perm_gap)
    /\ permPc' = "api"
    /\ UNCHANGED <<perm_messages, perm, perm_gap, notPerm>>

(***************************************************************************)
(* synthesize_article.  A text is the list of its parts: the content of    *)
(* one extraction is one part, "\n\n".join(...) of several contents is the *)
(* list of them.                                                           *)
(***************************************************************************)
MaxGroupSize == 2

\* the extractions of a group: each key may be absent from the record
SynthExtractions(n) ==
    [1..n -> [title : {Missing, "Title 0"}, category : {Missing, "How-To"},
              content : {Missing, "steps"}]]

\* what the model answers to the synthesis prompt
SynthAnswers == {[title |-> "Final", category |-> "FAQ", content |-> <<"article">>]}

SynthCalls(p) ==
    {Raises(e) : e \in CompleteRaises(p)} \cup {Garbage} \cup {Json(v) : v \in SynthAnswers}

Called(result, calls) == [raised |-> result.raised, value |-> result.value, calls |-> calls]

\* the provider's article, or the handlers' article
Synthesized(group_title, exts, call) ==
    IF CallException(call) # ""
    THEN IF CallException(call) \in SynthesizeArticleCatches
         THEN Called(Returns([title |-> group_title,
                              category |-> Get(exts[1].category, "FAQ"),
                              content |-> [k \in DOMAIN exts |-> Get(exts[k].content, "")]]), 1)
         ELSE Called(Raised(CallException(call)), 1)
    ELSE Called(Returns(call.value), 1)

\* synthesize_article that asks the provider whatever the size of the group
synthesize_article_NoPassthrough(group_title, exts, call) ==
    Synthesized(group_title, exts, call)

\* synthesize_article(group_title, extractions, topic), given what the
\* provider call does if it is made
synthesize_article(group_title, exts, call) ==
    IF Len(exts) = 1
    THEN Called(Returns([title |-> Get(exts[1].title, "Untitled"),
                         category |-> Get(exts[1].category, "FAQ"),
                         content |-> <<Get(exts[1].content, "")>>]), 0)
    ELSE Synthesized(group_title, exts, call)

SynthArgs ==
    /\ synth_title \in {"A"}
    /\ \E n \in 1..MaxGroupSize : synth_extractions \in SynthExtractions(n)
    /\ synth_call = NoCall
    /\ synth_calls = 0
    /\ article = <<>>
    /\ synth_exc = ""
    /\ synthPc = "args"

SynthIdle ==
    /\ synth_title = ""
    /\ synth_extractions = <<>>
    /\ synth_call = NoCall
    /\ synth_calls = 0
    /\ article = <<>>
    /\ synth_exc = ""
    /\ synthPc = "idle"

\* article = analyzer.synthesize_article(group_title, group_extractions, args.topic)
CallSynthesizeArticle ==
    /\ synthPc = "args"
    /\ \E call \in SynthCalls(provider) :
          LET r == synthesize_article(synth_title, synth_extractions, call)
          IN  /\ synth_call' = IF r.calls = 0 THEN NoCall ELSE call
              /\ synth_calls' = r.calls
              /\ article' = r.value
              /\ synth_exc' = r.raised
              /\ synthPc' = IF r.raised = "" THEN "returned" ELSE "raised"
    /\ UNCHANGED <<synth_title, synth_extractions, provider, notSynth>>

(***************************************************************************)
(* The cluster loop of the API-mode main (slack_injury_search.py 195-251): *)
(* a cluster whose messages are all claimed by earlier incidents is        *)
(* skipped; for the others the context is fetched, claimed, and one        *)
(* incident is appended to raw_incidents.                                  *)
(***************************************************************************)
MaxApiClusters == 3

\* the messages of the clusters of one channel; the message at ts 1 may be
\* the parent of a thread
ClaimClusterMessages ==
    {[ts |-> ts, thread_ts |-> NoThread, reply_count |-> IF ts = 1 THEN r ELSE 0] :
        ts \in ChannelTs, r \in {0, 1}}

\* a cluster as cluster_messages returns it
ClaimClusters ==
    {c \in UNION {[1..len -> ClaimClusterMessages] : len \in 1..MaxClusterLen} :
        AscendingTs(c)}

\* cluster_messages puts the messages of one ts into one cluster
DisjointTs(cls, cluster) ==
    \A a \in DOMAIN cls :
        {cls[a][k].ts : k \in DOMAIN cls[a]} \cap {cluster[k].ts : k \in DOMAIN cluster} = {}

RECURSIVE ApiClusters(_)
ApiClusters(n) ==
    IF n = 0 THEN {<<>>}
    ELSE {Append(cls, c) : <<cls, c>> \in
              {pair \in ApiClusters(n - 1) \X ClaimClusters : DisjointTs(pair[1], pair[2])}}

\* the skip test that is content with one claimed message
ClusterCovered_AnyClaimed(cluster, claimed) ==
    {cluster[k].ts : k \in DOMAIN cluster} \cap claimed # {}

\* cluster_ts <= claimed_ts
ClusterCovered(cluster, claimed) ==
    {cluster[k].ts : k \in DOMAIN cluster} \subseteq claimed

\* the incident appended for a cluster
Incident(idx, context_messages) ==
    [cluster |-> idx,
     context_messages |-> context_messages,
     context_ts_set |-> {context_messages[k].ts : k \in DOMAIN context_messages},
     user_ids |-> {UserOf(context_messages[k].ts) : k \in DOMAIN context_messages} \ {""}]

ClaimArgs ==
    /\ \E n \in 1..MaxApiClusters : api_clusters \in ApiClusters(n)
    /\ cluster_idx = 0
    /\ claimed_ts = {}
    /\ raw_incidents = <<>>
    /\ claim_log = <<>>
    /\ claimPc = "loop"

ClaimIdle ==
    /\ api_clusters = <<>>
    /\ cluster_idx = 0
    /\ claimed_ts = {}
    /\ raw_incidents = <<>>
    /\ claim_log = <<>>
    /\ claimPc = "idle"

\* if cluster_ts <= claimed_ts: continue
SkipCluster ==
    /\ claimPc = "loop"
    /\ cluster_idx < Len(api_clusters)
    /\ ClusterCovered(api_clusters[cluster_idx + 1], claimed_ts)
    /\ claim_log' = Append(claim_log, [claimed_before |-> claimed_ts, skipped |-> TRUE,
                                       fetches |-> 0, incidents |-> 0])
    /\ cluster_idx' = cluster_idx + 1
    /\ UNCHANGED <<api_clusters, claimed_ts, raw_incidents, claimPc, notClaim>>

\* the fetches, context_messages, claimed_ts |= context_ts_set,
\* raw_incidents.append(...)
BuildIncident ==
    /\ claimPc = "loop"
    /\ cluster_idx < Len(api_clusters)
    /\ ~ClusterCovered(api_clusters[cluster_idx + 1], claimed_ts)
    /\ LET cluster == api_clusters[cluster_idx + 1]
       IN  \E surrounding \in [AnchorsOf(cluster) -> FetchResults],
              thread_msgs \in [ThreadTssOf(cluster) -> FetchResults] :
                LET incident == Incident(cluster_idx,
                                         api_context(cluster, surrounding, thread_msgs))
                IN  /\ claimed_ts' = claimed_ts \cup incident.context_ts_set
                    /\ raw_incidents' = Append(raw_incidents, incident)
                    /\ claim_log' =
                           Append(claim_log,
                                  [claimed_before |-> claimed_ts, skipped |-> FALSE,
                                   fetches |-> Cardinality(AnchorsOf(cluster))
                                                   + Cardinality(ThreadTssOf(cluster)),
                                   incidents |-> 1])
    /\ cluster_idx' = cluster_idx + 1
    /\ UNCHANGED <<api_clusters, claimPc, notClaim>>

\* the loop is over: deduped = dedup_by_context_overlap(raw_incidents, ...)
ClustersDone ==
    /\ claimPc = "loop"
    /\ cluster_idx = Len(api_clusters)
    /\ claimPc' = "done"
    /\ UNCHANGED <<api_clusters, cluster_idx, claimed_ts, raw_incidents, claim_log, notClaim>>

(***************************************************************************)
(* The provider calls of one knowledge-base run (slack_search.py main      *)
(* 232-353 with classify_messages, extract_knowledge, group_topics and     *)
(* synthesize_article).  What a call returns is reduced to what decides    *)
(* the next step: an exception, text that is no JSON, or a JSON value.     *)
(***************************************************************************)
\* the starts of: for i in range(0, len(messages), CLASSIFICATION_BATCH_SIZE)
BatchStarts(n) == {i \in 0..(n - 1) : i % CLASSIFICATION_BATCH_SIZE = 0}

\* how a call ends for the method that made it
CallResult(call, catches) ==
    CASE CallException(call) = "" -> "parsed"
      [] CallException(call) \in catches -> "fallback"
      [] OTHER -> "escaped"

\* one call of provider.complete, made for `item` of `channel`
KbCall(kind, channel, item, call, catches) ==
    [kind |-> kind, channel |-> channel, item |-> item,
     result |-> CallResult(call, catches)]

\* the calls of a run that ended in a fallback
MaxFailures == 1

Failures(calls) == Len(SelectSeq(calls, LAMBDA c : c.result = "fallback"))

\* lengths of a channel's message list: empty, one batch, two batches
KbMessageCounts == {0, 1, CLASSIFICATION_BATCH_SIZE + 1}

KbCalls(p) ==
    {Raises(e) : e \in CompleteRaises(p)} \cup {Garbage} \cup {Json("object"), Json("array")}

\* the grouping answers of a run: a group of the first two extractions, a
\* group of an index past the end, an element that is no object
KbGroupCalls(p, n) ==
    {Raises(e) : e \in CompleteRaises(p)} \cup {Garbage}
        \cup {Json([list |-> TRUE, items |-> items]) :
                 items \in UNION {[1..len -> {Group("A", <<0, 1>>), Group("A", <<n>>), NotObject}] :
                                     len \in 0..2}}

\* group_extractions = [all_extractions[i] for i in indices if i < len(all_extractions)]
GroupExtractions(indices, n) == SelectSeq(indices, LAMBDA i : i < n)

KbArgs ==
    /\ \E n \in 1..MaxChannels : kb_channels \in [1..n -> KbMessageCounts]
    /\ kb_relevant = <<>>
    /\ kb_batch_start = 0
    /\ kb_batch_relevant = 0
    /\ kb_deduped = <<>>
    /\ kb_unit = 0
    /\ kb_extractions = 0
    /\ kb_groups = <<>>
    /\ kb_group = 0
    /\ kb_calls = <<>>
    /\ kb_exc = ""
    /\ kb_report = "none"
    /\ kbPc = IF Sum(kb_channels) = 0 THEN "done" ELSE "classify"

KbIdle ==
    /\ kb_channels = <<>>
    /\ kb_relevant = <<>>
    /\ kb_batch_start = 0
    /\ kb_batch_relevant = 0
    /\ kb_deduped = <<>>
    /\ kb_unit = 0
    /\ kb_extractions = 0
    /\ kb_groups = <<>>
    /\ kb_group = 0
    /\ kb_calls = <<>>
    /\ kb_exc = ""
    /\ kb_report = "none"
    /\ kbPc = "idle"

\* one turn of the loop of classify_messages: _classify_batch calls the
\* provider once; a batch gives its relevant messages, or none after a
\* failure that _classify_batch catches
KbClassifyBatch ==
    /\ kbPc = "classify"
    /\ Len(kb_relevant) < Len(kb_channels)
    /\ LET channel == Len(kb_relevant) + 1
           len == Min(CLASSIFICATION_BATCH_SIZE, kb_channels[channel] - kb_batch_start)
       IN  /\ kb_batch_start < kb_channels[channel]
           /\ \E call \in KbCalls(provider) :
                 LET made == KbCall("classify", channel, kb_batch_start, call,
                                    ClassifyBatchCatches)
                 IN  /\ made.result = "fallback" => Failures(kb_calls) < MaxFailures
                     /\ kb_calls' = Append(kb_calls, made)
                     /\ IF made.result = "escaped"
                        THEN /\ kb_exc' = CallException(call)
                             /\ kbPc' = "raised"
                             /\ UNCHANGED <<kb_batch_start, kb_batch_relevant>>
                        ELSE /\ kb_batch_start' = kb_batch_start + CLASSIFICATION_BATCH_SIZE
                             /\ \E n_relevant \in
                                    (IF made.result = "parsed" THEN 0..Min(len, 1) ELSE {0}) :
                                      kb_batch_relevant' = kb_batch_relevant + n_relevant
                             /\ UNCHANGED <<kb_exc, kbPc>>
    /\ UNCHANGED <<kb_channels, kb_relevant, kb_deduped, kb_unit, kb_extractions, kb_groups,
                   kb_group, kb_report, provider, notKb>>

\* "if not messages: continue", or classify_messages returned
KbChannelClassified ==
    /\ kbPc = "classify"
    /\ Len(kb_relevant) < Len(kb_channels)
    /\ kb_batch_start >= kb_channels[Len(kb_relevant) + 1]
    /\ kb_relevant' = Append(kb_relevant, kb_batch_relevant)
    /\ kb_batch_start' = 0
    /\ kb_batch_relevant' = 0
    /\ UNCHANGED <<kb_channels, kb_deduped, kb_unit, kb_extractions, kb_groups, kb_group,
                   kb_calls, kb_exc, kb_report, kbPc, provider, notKb>>

\* total_relevant = sum(...); if total_relevant == 0: report.write(...); return
KbClassifyDone ==
    /\ kbPc = "classify"
    /\ Len(kb_relevant) = Len(kb_channels)
    /\ LET next == ReturnIfNothingRelevant(Sum(kb_relevant))
       IN  /\ kbPc' = next.pc
           /\ kb_report' = next.report
    /\ UNCHANGED <<kb_channels, kb_relevant, kb_batch_start, kb_batch_relevant, kb_deduped,
                   kb_unit, kb_extractions, kb_groups, kb_group, kb_calls, kb_exc, provider,
                   notKb>>

\* for url, relevant_msgs in relevant_by_channel.items(): the channel's
\* clusters and deduped = dedup_by_context_overlap(raw_clusters, ...); a
\* channel without relevant messages is not in relevant_by_channel
KbDedupChannel ==
    /\ kbPc = "units"
    /\ Len(kb_deduped) < Len(kb_channels)
    /\ IF Len(kb_deduped) = 0 THEN TRUE ELSE kb_unit = kb_deduped[Len(kb_deduped)]
    /\ LET n_relevant == kb_relevant[Len(kb_deduped) + 1]
       IN  \E n_units \in (IF n_relevant = 0 THEN {0}
                             ELSE 1..Min(n_relevant, MaxDeduped)) :
              kb_deduped' = Append(kb_deduped, n_units)
    /\ kb_unit' = 0
    /\ UNCHANGED <<kb_channels, kb_relevant, kb_batch_start, kb_batch_relevant,
                   kb_extractions, kb_groups, kb_group, kb_calls, kb_exc, kb_report, kbPc,
                   provider, notKb>>

\* extraction = analyzer.extract_knowledge(...); extraction.get("title", ...):
\* one call; the answer must be an object
KbExtractUnit ==
    /\ kbPc = "units"
    /\ Len(kb_deduped) > 0
    /\ kb_unit < kb_deduped[Len(kb_deduped)]
    /\ \E call \in KbCalls(provider) :
          LET made == KbCall("extract", Len(kb_deduped), kb_unit, call,
                             ExtractKnowledgeCatches)
          IN  /\ made.result = "fallback" => Failures(kb_calls) < MaxFailures
              /\ kb_calls' = Append(kb_calls, made)
              /\ IF made.result = "escaped"
                 THEN /\ kb_exc' = CallException(call)
                      /\ kbPc' = "raised"
                      /\ UNCHANGED <<kb_unit, kb_extractions>>
                 ELSE IF made.result = "parsed" /\ call.value # "object"
                      THEN /\ kb_exc' = "AttributeError"
                           /\ kbPc' = "raised"
                           /\ UNCHANGED <<kb_unit, kb_extractions>>
                      ELSE /\ kb_unit' = kb_unit + 1
                           /\ kb_extractions' = kb_extractions + 1
                           /\ UNCHANGED <<kb_exc, kbPc>>
    /\ UNCHANGED <<kb_channels, kb_relevant, kb_batch_start, kb_batch_relevant, kb_deduped,
                   kb_groups, kb_group, kb_report, provider, notKb>>

\* the loop over relevant_by_channel is over; "if not all_extractions:
\* report.write(...); return"
KbUnitsDone ==
    /\ kbPc = "units"
    /\ Len(kb_deduped) = Len(kb_channels)
    /\ kb_unit = kb_deduped[Len(kb_deduped)]
    /\ IF kb_extractions = 0
       THEN kbPc' = "done" /\ kb_report' = "empty"
       ELSE kbPc' = "group" /\ UNCHANGED kb_report
    /\ UNCHANGED <<kb_channels, kb_relevant, kb_batch_start, kb_batch_relevant, kb_deduped,
                   kb_unit, kb_extractions, kb_groups, kb_group, kb_calls, kb_exc, provider,
                   notKb>>

\* groups = analyzer.group_topics(all_extractions): one call for two
\* extractions or more, none for one
KbGroupTopics ==
    /\ kbPc = "group"
    /\ LET exts == Extractions(kb_extractions, {})
       IN  \E call \in (IF kb_extractions <= 1 THEN {NoCall}
                        ELSE KbGroupCalls(provider, kb_extractions)) :
              LET r == group_topics(exts, call)
              IN  /\ CallResult(call, GroupTopicsCatches) = "fallback"
                         => Failures(kb_calls) < MaxFailures
                  /\ kb_calls' = IF call = NoCall THEN kb_calls
                                 ELSE Append(kb_calls,
                                             KbCall("group", 0, 0, call, GroupTopicsCatches))
                  /\ IF r.raised = ""
                     THEN /\ kb_groups' = r.value
                          /\ kbPc' = "synthesize"
                          /\ UNCHANGED kb_exc
                     ELSE /\ kb_exc' = r.raised
                          /\ kbPc' = "raised"
                          /\ UNCHANGED kb_groups
    /\ UNCHANGED <<kb_channels, kb_relevant, kb_batch_start, kb_batch_relevant, kb_deduped,
                   kb_unit, kb_extractions, kb_group, kb_report, provider, notKb>>

\* one turn of: for grp_idx, group in enumerate(groups); synthesize_article
\* calls the provider unless the group holds one extraction
KbSynthesizeGroup ==
    /\ kbPc = "synthesize"
    /\ kb_group < Len(kb_groups)
    /\ LET size == Len(GroupExtractions(kb_groups[kb_group + 1].indices, kb_extractions))
       IN  IF size <= 1
           THEN /\ kb_group' = kb_group + 1
                /\ UNCHANGED <<kb_calls, kb_exc, kbPc>>
           ELSE \E call \in KbCalls(provider) :
                   LET made == KbCall("synthesize", 0, kb_group, call,
                                      SynthesizeArticleCatches)
                   IN  /\ made.result = "fallback" => Failures(kb_calls) < MaxFailures
                       /\ kb_calls' = Append(kb_calls, made)
                       /\ IF made.result = "escaped"
                          THEN /\ kb_exc' = CallException(call)
                               /\ kbPc' = "raised"
                               /\ UNCHANGED kb_group
                          ELSE IF made.result = "parsed" /\ call.value # "object"
                               THEN /\ kb_exc' = "AttributeError"
                                    /\ kbPc' = "raised"
                                    /\ UNCHANGED kb_group
                               ELSE /\ kb_group' = kb_group + 1
                                    /\ UNCHANGED <<kb_exc, kbPc>>
    /\ UNCHANGED <<kb_channels, kb_relevant, kb_batch_start, kb_batch_relevant, kb_deduped,
                   kb_unit, kb_extractions, kb_groups, kb_report, provider, notKb>>

\* report.write(args.output, args.format)
KbWriteReport ==
    /\ kbPc = "synthesize"
    /\ kb_group = Len(kb_groups)
    /\ kbPc' = "done"
    /\ kb_report' = "articles"
    /\ UNCHANGED <<kb_channels, kb_relevant, kb_batch_start, kb_batch_relevant, kb_deduped,
                   kb_unit, kb_extractions, kb_groups, kb_group, kb_calls, kb_exc, provider,
                   notKb>>

(***************************************************************************)
(* Specifications, one per component                                       *)
(***************************************************************************)
ProviderIdle == provider = "none"

InitCluster ==
    ClusterArgs /\ DedupIdle /\ ProviderIdle /\ GroupIdle /\ ClassifyIdle /\ ExtractIdle /\ CompleteIdle /\ MainIdle /\ JsonIdle /\ ContextIdle /\ PermIdle /\ SynthIdle /\ ClaimIdle /\ KbIdle

NextCluster == CallClusterScrape \/ CallClusterApi

SpecCluster == InitCluster /\ [][NextCluster]_vars

InitDedup ==
    DedupArgs /\ ClusterIdle /\ ProviderIdle /\ GroupIdle /\ ClassifyIdle /\ ExtractIdle /\ CompleteIdle /\ MainIdle /\ JsonIdle /\ ContextIdle /\ PermIdle /\ SynthIdle /\ ClaimIdle /\ KbIdle

NextDedup == CallDedup \/ CallDedupAgain

SpecDedup == InitDedup /\ [][NextDedup]_vars

InitGroup ==
    provider \in Providers /\ GroupArgs /\ ClusterIdle /\ DedupIdle /\ ClassifyIdle /\ ExtractIdle /\ CompleteIdle /\ MainIdle /\ JsonIdle /\ ContextIdle /\ PermIdle /\ SynthIdle /\ ClaimIdle /\ KbIdle

NextGroup == CallGroupTopics

SpecGroup == InitGroup /\ [][NextGroup]_vars

InitClassify ==
    provider \in Providers /\ ClassifyArgs /\ ClusterIdle /\ DedupIdle /\ GroupIdle /\ ExtractIdle /\ CompleteIdle /\ MainIdle /\ JsonIdle /\ ContextIdle /\ PermIdle /\ SynthIdle /\ ClaimIdle /\ KbIdle

NextClassify == ClassifyBatch \/ ClassifyReturn

SpecClassify == InitClassify /\ [][NextClassify]_vars

InitExtract ==
    provider \in Providers /\ ExtractArgs /\ ClusterIdle /\ DedupIdle /\ GroupIdle /\ ClassifyIdle /\ CompleteIdle /\ MainIdle /\ JsonIdle /\ ContextIdle /\ PermIdle /\ SynthIdle /\ ClaimIdle /\ KbIdle

NextExtract == ExtractUnit \/ ExtractDone

SpecExtract == InitExtract /\ [][NextExtract]_vars

InitComplete ==
    provider \in Providers /\ CompleteArgs /\ ClusterIdle /\ DedupIdle /\ GroupIdle
        /\ ClassifyIdle /\ ExtractIdle /\ MainIdle /\ JsonIdle /\ ContextIdle /\ PermIdle /\ SynthIdle /\ ClaimIdle /\ KbIdle

NextComplete == CallComplete

SpecComplete == InitComplete /\ [][NextComplete]_vars

InitMain ==
    ProviderIdle /\ MainArgs /\ ClusterIdle /\ DedupIdle /\ GroupIdle /\ ClassifyIdle
        /\ ExtractIdle /\ CompleteIdle /\ JsonIdle /\ ContextIdle /\ PermIdle /\ SynthIdle /\ ClaimIdle /\ KbIdle

NextMain ==
    \/ Setup
    \/ GetChannels
    \/ ClassifyChannel
    \/ ClassifyDone
    \/ ProcessUnits
    \/ GroupStep
    \/ SynthesizeStep
    \/ WriteReport

SpecMain == InitMain /\ [][NextMain]_vars

InitJson ==
    ProviderIdle /\ JsonArgs /\ ClusterIdle /\ DedupIdle /\ GroupIdle /\ ClassifyIdle
        /\ ExtractIdle /\ CompleteIdle /\ MainIdle /\ ContextIdle /\ PermIdle /\ SynthIdle /\ ClaimIdle /\ KbIdle

NextJson == ExtractRaw \/ ExtractFenced \/ ExtractProse

SpecJson == InitJson /\ [][NextJson]_vars

InitContext ==
    ProviderIdle /\ ContextArgs /\ ClusterIdle /\ DedupIdle /\ GroupIdle /\ ClassifyIdle
        /\ ExtractIdle /\ CompleteIdle /\ MainIdle /\ JsonIdle /\ PermIdle /\ SynthIdle /\ ClaimIdle /\ KbIdle

NextContext == GatherContextScrape \/ GatherContextApi

SpecContext == InitContext /\ [][NextContext]_vars

InitPerm ==
    ProviderIdle /\ PermArgs /\ ClusterIdle /\ DedupIdle /\ GroupIdle /\ ClassifyIdle
        /\ ExtractIdle /\ CompleteIdle /\ MainIdle /\ JsonIdle /\ ContextIdle /\ SynthIdle /\ ClaimIdle /\ KbIdle

NextPerm == ClusterBothScrape \/ ClusterBothApi

SpecPerm == InitPerm /\ [][NextPerm]_vars

InitSynth ==
    provider \in Providers /\ SynthArgs /\ ClusterIdle /\ DedupIdle /\ GroupIdle
        /\ ClassifyIdle /\ ExtractIdle /\ CompleteIdle /\ MainIdle /\ JsonIdle
        /\ ContextIdle /\ PermIdle /\ ClaimIdle /\ KbIdle

NextSynth == CallSynthesizeArticle

SpecSynth == InitSynth /\ [][NextSynth]_vars

(***************************************************************************)
InitClaim ==
    ProviderIdle /\ ClaimArgs /\ ClusterIdle /\ DedupIdle /\ GroupIdle /\ ClassifyIdle
        /\ ExtractIdle /\ CompleteIdle /\ MainIdle /\ JsonIdle /\ ContextIdle /\ PermIdle
        /\ SynthIdle /\ KbIdle

NextClaim == SkipCluster \/ BuildIncident \/ ClustersDone

SpecClaim == InitClaim /\ [][NextClaim]_vars

InitKb ==
    provider \in Providers /\ KbArgs /\ ClusterIdle /\ DedupIdle /\ GroupIdle /\ ClassifyIdle
        /\ ExtractIdle /\ CompleteIdle /\ MainIdle /\ JsonIdle /\ ContextIdle /\ PermIdle
        /\ SynthIdle /\ ClaimIdle

NextKb ==
    \/ KbClassifyBatch \/ KbChannelClassified \/ KbClassifyDone \/ KbDedupChannel
    \/ KbExtractUnit \/ KbUnitsDone \/ KbGroupTopics \/ KbSynthesizeGroup \/ KbWriteReport

SpecKb == InitKb /\ [][NextKb]_vars

(* Properties of cluster_messages                                          *)
(***************************************************************************)
ClusterReturned == clusterPc \in {"scrape", "api"}

\* how many messages of the clusters carry the id of m
Occurrences(m) ==
    Cardinality({<<c, k>> \in (DOMAIN clusters) \X (1..MaxMsgs + 1) :
                    k \in DOMAIN clusters[c] /\ clusters[c][k] = m})

\* C1: the clusters returned by either variant partition the input: every
\* input message is in exactly one cluster, exactly once, nothing else is in
\* a cluster, no cluster is empty, and an empty input gives no cluster.
C1_Partition ==
    ClusterReturned =>
        /\ \A k \in DOMAIN messages : Occurrences(messages[k]) = 1
        /\ \A c \in DOMAIN clusters : Range(clusters[c]) \subseteq Range(messages)
        /\ \A c \in DOMAIN clusters : clusters[c] # <<>>
        /\ (messages = <<>> => clusters = <<>>)

C1_Witness ==
    /\ clusterPc = "api"
    /\ Len(messages) = MaxMsgs
    /\ Len(clusters) = 2
    /\ Len(clusters) < Len(TimeGapClusters(messages, gap_seconds))

\* two messages that are neighbours in the timestamp order of a cluster
AdjacentPairs(cluster) ==
    LET s == SortByTs(cluster)
    IN  {<<s[k], s[k + 1]>> : k \in 1..(Len(s) - 1)}

WithinGap(pair) == pair[2].ts - pair[1].ts <= gap_seconds

\* the two messages were put in one cluster by the time-gap pass
SameTimeGapCluster(pair) ==
    \E c \in Range(TimeGapClusters(messages, gap_seconds)) :
        pair[1] \in Range(c) /\ pair[2] \in Range(c)

\* C2 as stated: in every cluster of either variant, timestamp-adjacent
\* messages are at most gap_seconds apart.
C2_AdjacentWithinGap ==
    ClusterReturned =>
        \A c \in DOMAIN clusters : \A pair \in AdjacentPairs(clusters[c]) : WithinGap(pair)

\* C2 amended: timestamp-adjacent messages of a cluster are at most
\* gap_seconds apart in the time-gap-only variant; in the thread-merging
\* variant they are too, unless the two come from different time-gap
\* clusters that were merged because they share a thread_ts.
C2_AdjacentWithinGapOrThreadMerged ==
    /\ clusterPc = "scrape" =>
          \A c \in DOMAIN clusters : \A pair \in AdjacentPairs(clusters[c]) : WithinGap(pair)
    /\ clusterPc = "api" =>
          \A c \in DOMAIN clusters : \A pair \in AdjacentPairs(clusters[c]) :
              WithinGap(pair) \/ ~SameTimeGapCluster(pair)

C2_Witness ==
    /\ clusterPc = "api"
    /\ \E c \in DOMAIN clusters :
          /\ \E pair \in AdjacentPairs(clusters[c]) : ~WithinGap(pair)
          /\ \E pair \in AdjacentPairs(clusters[c]) :
                WithinGap(pair) /\ pair[1].ts < pair[2].ts

(***************************************************************************)
(* Properties of dedup_by_context_overlap                                  *)
(***************************************************************************)
DedupReturned == dedupPc \in {"once", "twice"}

\* C3: running dedup_by_context_overlap on its own output with the same
\* threshold returns the same units in the same order, with the same
\* context_ts_set, context_messages and participants: no merge happens.
C3_Idempotent == dedupPc = "twice" => deduped_again = deduped

C3_Witness ==
    /\ dedupPc = "twice"
    /\ Len(units) = 3
    /\ Len(deduped) = 2
    /\ deduped[1].context_ts_set \cap deduped[2].context_ts_set # {}

\* C4: two units whose context_ts_set are identical leave
\* dedup_by_context_overlap with threshold 0.4 as a single unit.
C4_IdenticalSetsMerge ==
    ( /\ DedupReturned
      /\ Len(units) = 2
      /\ units[1].context_ts_set = units[2].context_ts_set
      /\ overlap_threshold = [num |-> 2, den |-> 5] )
    => Len(deduped) = 1

C4_Witness ==
    /\ dedupPc = "once"
    /\ Len(units) = 2
    /\ units[1].context_ts_set = units[2].context_ts_set
    /\ units[1].date > units[2].date
    /\ overlap_threshold = [num |-> 2, den |-> 5]
    /\ Len(deduped) = 1

\* C5: when the context_ts_set of one of two units is a non-empty subset of
\* the other's and the threshold is at most 1, the two are merged into one
\* unit whose context_ts_set is the union of both.
C5_SubsetMerges ==
    ( /\ DedupReturned
      /\ Len(units) = 2
      /\ \E a, b \in 1..2 :
            /\ a # b
            /\ units[a].context_ts_set # {}
            /\ units[a].context_ts_set \subseteq units[b].context_ts_set
      /\ overlap_threshold.num <= overlap_threshold.den )
    => /\ Len(deduped) = 1
       /\ deduped[1].context_ts_set = units[1].context_ts_set \cup units[2].context_ts_set

\* the example of the specification: {1,2,3} and {2,3} with threshold 0.5
C5_Witness ==
    /\ dedupPc = "once"
    /\ Len(units) = 2
    /\ units[1].context_ts_set = {1, 2, 3}
    /\ units[2].context_ts_set = {2, 3}
    /\ overlap_threshold = [num |-> 1, den |-> 2]
    /\ Len(deduped) = 1
    /\ deduped[1].context_ts_set = {1, 2, 3}

(***************************************************************************)
(* Properties of group_topics                                              *)
(***************************************************************************)
\* the number of groups of gs whose indices hold i
GroupsHolding(gs, i) == Cardinality({k \in DOMAIN gs : i \in Range(gs[k].indices)})

\* the groups of the model's answer (none when no JSON was found)
AnswerGroups == IF group_call.kind = "json" THEN group_call.value.items ELSE <<>>

ExtractionIndices == 0..(Len(extractions) - 1)

\* the answer's groups leave at least one extraction index out
CoversOnlyASubset == ExtractionIndices \ AllIndices(AnswerGroups) # {}

\* C6 as stated: for N >= 2 extractions and a model response whose groups
\* cover only a subset of the indices, every index 0..N-1 is in exactly one
\* group of the list group_topics returns.
C6_EveryIndexInExactlyOneGroup ==
    ( /\ groupPc = "returned"
      /\ Len(extractions) >= 2
      /\ group_call.kind = "json"
      /\ CoversOnlyASubset )
    => \A i \in ExtractionIndices : GroupsHolding(groups, i) = 1

\* C6 amended: for N >= 2 extractions and any model response, every index
\* 0..N-1 is in at least one group of the list group_topics returns, and in
\* exactly one unless the response itself puts it in several groups: an
\* index the response puts in k >= 1 groups is in k groups of the result.
C6_EveryIndexCovered ==
    ( /\ groupPc = "returned"
      /\ Len(extractions) >= 2
      /\ group_call.kind \in {"json", "garbage"} )
    => \A i \in ExtractionIndices :
          GroupsHolding(groups, i) = Max(1, GroupsHolding(AnswerGroups, i))

C6_Witness ==
    /\ groupPc = "returned"
    /\ Len(extractions) = MaxExtractions
    /\ group_call.kind = "json"
    /\ Len(AnswerGroups) = 2
    /\ CoversOnlyASubset
    /\ AllIndices(AnswerGroups) \cap ExtractionIndices # {}
    /\ Len(groups) > Len(AnswerGroups)

\* the example: three extractions, and the model answers
\* [{"group_title": "A", "indices": [0, 2]}]
C7_Example ==
    /\ groupPc # "args"
    /\ Len(extractions) = 3
    /\ group_call = Json([list |-> TRUE, items |-> <<Group("A", <<0, 2>>)>>])

\* C7 as stated: the example returns group "A" with indices [0, 2] and a
\* singleton group [1] titled "Untitled-from-extraction-1".
C7_SingletonTitledUntitledFromExtraction ==
    C7_Example =>
        /\ groupPc = "returned"
        /\ groups = <<Group("A", <<0, 2>>), Group("Untitled-from-extraction-1", <<1>>)>>

\* C7 amended: the example returns group "A" with indices [0, 2] and a
\* singleton group [1] whose group_title is the title of extraction 1, or
\* "Untitled" when that extraction has no title.
C7_SingletonTitledAsExtraction ==
    C7_Example =>
        /\ groupPc = "returned"
        /\ groups = <<Group("A", <<0, 2>>),
                      Group(IF extractions[2].title = Missing THEN "Untitled"
                            ELSE extractions[2].title, <<1>>)>>

C7_Witness ==
    /\ C7_Example
    /\ groupPc = "returned"
    /\ extractions[2].title = "Title 1"
    /\ Len(groups) = 2

(***************************************************************************)
(* Properties of _classify_batch and classify_messages                     *)
(***************************************************************************)
\* the batch the last call of provider.complete was made for
LastBatch ==
    IF classifyPc = "raised" THEN BatchAt(channel_messages, batch_start)
    ELSE BatchAt(channel_messages, batch_start - CLASSIFICATION_BATCH_SIZE)

\* the elements of the last answer
LastItems == IF classify_call.kind = "json" THEN classify_call.value.items ELSE <<>>

IsIndexed(item) == item.kind \in {"int", "dict"}

OutOfRange(item) ==
    IsIndexed(item) /\ (item.index < 0 \/ item.index >= Len(LastBatch))

Kept(item) == IsIndexed(item) /\ ~OutOfRange(item)

C9_FailedBatchContributesNothing ==
    classify_call.kind \in {"raise", "garbage"}
    => /\ classifyPc # "raised"
       /\ Last(batch_results) = <<>>
       /\ relevant = Flatten(batch_results)

(***************************************************************************)
(* Properties of extract_knowledge                                         *)
(***************************************************************************)
\* C10: when the gateway raises on the call made for a unit, no exception
\* leaves extract_knowledge, the unit's record is the fallback record, and
\* the loop goes on to the next unit.
C10_GatewayRaiseGivesFallback ==
    extract_call.kind = "raise"
    => /\ extractPc # "raised"
       /\ Last(all_extractions).record = FALLBACK_EXTRACTION
       /\ ext_idx = Len(all_extractions)

\* C11: whatever text the model returns for a unit (JSON that is no object
\* included), no exception ends the loop, the unit gets a record, which is
\* the parsed value or the fallback record, and the loop goes on to the
\* next unit.
C11_EveryAnswerYieldsARecord ==
    extract_call.kind \in {"json", "garbage"}
    => /\ extractPc # "raised"
       /\ ext_idx = Len(all_extractions)
       /\ Last(all_extractions).record =
             (IF extract_call.kind = "json" THEN extract_call.value ELSE FALLBACK_EXTRACTION)

(***************************************************************************)
(* Properties of the providers' complete()                                 *)
(***************************************************************************)
TransportOrProtocolFailure(outcome) == outcome # "text"

\* C12: complete() of every provider raises RuntimeError on every transport
\* or protocol failure (timeout, refused connection, error status, malformed
\* payload), returns text otherwise, and lets no other exception out.
C12_UniformErrorKind ==
    \A k \in DOMAIN complete_log :
        IF TransportOrProtocolFailure(complete_log[k].outcome)
        THEN complete_log[k].result.raised = "RuntimeError"
        ELSE complete_log[k].result.raised = ""

(***************************************************************************)
(* Properties of setup() and main()                                        *)
(***************************************************************************)
\* C13: the provider's backend is checked when the provider is constructed:
\* when it is unreachable the construction raises, so that main starts no
\* pipeline step and calls no provider.
C13_UnreachableBackendFailsConstruction ==
    (mainPc \notin {"setup", "login"} /\ backend_state # "reachable")
    => /\ mainPc = "raised"
       /\ steps_started = {}
       /\ provider_calls = {}

\* classification is over for every channel, or was never needed
NothingFound ==
    /\ mainPc \in {"units", "group", "synthesize", "write", "done"}
    /\ Sum(all_channel_data) = 0 \/ Sum(relevant_by_channel) = 0

AllThreeRun == raw_result # NotRun /\ fenced_result # NotRun /\ prose_result # NotRun

\* C14: a JSON array given raw, inside a fenced block, and between leading
\* and trailing prose extracts, all three times, to the array itself.
C14_SameArrayThreeWays ==
    (AllThreeRun /\ json_value \in JsonArrays)
    => /\ raw_result = Returns(json_value)
       /\ fenced_result = Returns(json_value)
       /\ prose_result = Returns(json_value)

(***************************************************************************)
(* Order inside the clusters                                               *)
(***************************************************************************)
\* C16: every cluster cluster_messages returns lists its messages in
\* ascending ts order, in both variants, also after thread merges.
C16_ClustersAscending ==
    ClusterReturned => \A c \in DOMAIN clusters : AscendingTs(clusters[c])

\* the API variant merged clusters by thread, and the merged lists were not
\* in ts order before the final sort
C16_Witness ==
    /\ clusterPc = "api"
    /\ messages # <<>>
    /\ Len(clusters) < Len(TimeGapClusters(messages, gap_seconds))
    /\ clusters # ThreadMerge(TimeGapClusters(messages, gap_seconds))
    /\ \A c \in DOMAIN clusters : AscendingTs(clusters[c])

(***************************************************************************)
(* Order of the input list                                                 *)
(***************************************************************************)
AsSetOfSets(cls) == {Range(cls[c]) : c \in DOMAIN cls}

BothClustered == permPc \in {"scrape", "api"}

\* C17: the clusters, as a set of sets of messages, are the same for the
\* list and for every permutation of it, in both variants; in particular
\* the permuted list gives no cluster more.
C17_SameClustersForEveryOrder ==
    BothClustered =>
        /\ AsSetOfSets(clusters_permuted) = AsSetOfSets(clusters_original)
        /\ Len(clusters_permuted) = Len(clusters_original)

\* the permuted list is out of ts order and holds two messages of one ts,
\* and its messages still fall into fewer clusters than there are messages
C17_Witness ==
    /\ BothClustered
    /\ ~AscendingTs(Permuted(perm_messages, perm))
    /\ \E i, j \in DOMAIN perm_messages :
           i # j /\ perm_messages[i].ts = perm_messages[j].ts
    /\ Len(clusters_permuted) > 1
    /\ Len(clusters_permuted) < Len(perm_messages)
    /\ AsSetOfSets(clusters_permuted) = AsSetOfSets(clusters_original)

(***************************************************************************)
(* The fixpoints: what is true of the survivors                            *)
(***************************************************************************)
\* |a \cap b| / min(|a|, |b|) >= threshold, both sets non-empty
OverlapAtLeast(ts_a, ts_b, threshold) ==
    /\ ts_a # {}
    /\ ts_b # {}
    /\ \/ /\ Cardinality(ts_a) <= Cardinality(ts_b)
          /\ Cardinality(ts_a \cap ts_b) * threshold.den >= threshold.num * Cardinality(ts_a)
       \/ /\ Cardinality(ts_b) <= Cardinality(ts_a)
          /\ Cardinality(ts_a \cap ts_b) * threshold.den >= threshold.num * Cardinality(ts_b)

\* C19: when dedup_by_context_overlap returns, no two distinct surviving
\* units have context_ts_sets whose intersection, divided by the size of
\* the smaller set, reaches the threshold.
C19_NoSurvivorsOverlap ==
    dedupPc = "once" =>
        \A i, j \in DOMAIN deduped :
            i # j => ~OverlapAtLeast(deduped[i].context_ts_set,
                                     deduped[j].context_ts_set, overlap_threshold)

\* units were merged, more than one unit survives, and two survivors share
\* a timestamp without reaching the threshold
C19_Witness ==
    /\ dedupPc = "once"
    /\ Len(deduped) > 1
    /\ Len(deduped) < Len(units)
    /\ \E i, j \in DOMAIN deduped :
           /\ i # j
           /\ deduped[i].context_ts_set \cap deduped[j].context_ts_set # {}
           /\ ~OverlapAtLeast(deduped[i].context_ts_set,
                              deduped[j].context_ts_set, overlap_threshold)

\* C20: when the API-mode cluster_messages returns, no two distinct
\* clusters hold messages of the same non-empty thread_ts.
C20_NoThreadInTwoClusters ==
    clusterPc = "api" =>
        \A a, b \in DOMAIN clusters :
            a # b => ~\E m \in Range(clusters[a]), n \in Range(clusters[b]) :
                         m.thread_ts # "" /\ m.thread_ts = n.thread_ts

\* the first merge pass left two clusters with a common thread, which a
\* later pass merged
C20_Witness ==
    /\ clusterPc = "api"
    /\ messages # <<>>
    /\ LET first == ThreadPass(TimeGapClusters(messages, gap_seconds), 1, <<>>, {}).clusters
       IN  /\ \E a, b \in DOMAIN first :
                  a # b /\ SharesThread(ThreadsOf(first[a]), ThreadsOf(first[b]))
           /\ Len(clusters) < Len(first)

(***************************************************************************)
(* Properties of context gathering                                         *)
(***************************************************************************)
ContextGathered == contextPc \in {"scrape", "api"}

\* scrape mode: the channel list is empty or holds no ts of the cluster
NothingToSlice ==
    \/ gc_all_messages = <<>>
    \/ IndicesOf(gc_cluster, gc_all_messages) = {}

\* API mode: every fetch returned nothing
AllFetchesEmpty ==
    /\ \A a \in DOMAIN surrounding_fetched : surrounding_fetched[a] = <<>>
    /\ \A t \in DOMAIN thread_fetched : thread_fetched[t] = <<>>

\* C15: the context gathered for a non-empty cluster is never empty; in
\* scrape mode it is the cluster itself when the channel list is empty or
\* holds none of the cluster's timestamps, in API mode it is the cluster
\* itself when all fetches return nothing.
C15_ContextNeverEmpty ==
    (ContextGathered /\ gc_cluster # <<>>) =>
        /\ gathered_context # <<>>
        /\ (contextPc = "scrape" /\ NothingToSlice) => gathered_context = gc_cluster
        /\ (contextPc = "api" /\ AllFetchesEmpty) => gathered_context = gc_cluster

\* API mode, a cluster with a thread, and Slack returned nothing at all
C15_Witness ==
    /\ contextPc = "api"
    /\ gc_cluster # <<>>
    /\ ThreadTssOf(gc_cluster) # {}
    /\ AllFetchesEmpty
    /\ gathered_context = gc_cluster

(***************************************************************************)
(* What the merges of dedup_by_context_overlap keep                        *)
(***************************************************************************)
AllContextTs(cls) == UNION {cls[k].context_ts_set : k \in DOMAIN cls}

AllParticipants(cls) == UNION {cls[k].participants : k \in DOMAIN cls}

\* the merges of the call, pass after pass
MergesOf(passes) == Flatten([k \in DOMAIN passes |-> passes[k].merges])

\* C21: the units returned hold, together, the timestamps and the
\* participants of the units passed in, no more and no less, and the
\* receiver of a merge holds every timestamp of the unit it absorbed.
C21_NoContextLost ==
    dedupPc = "once" =>
        /\ AllContextTs(deduped) = AllContextTs(units)
        /\ AllParticipants(deduped) = AllParticipants(units)
        /\ \A k \in DOMAIN MergesOf(dedup_passes) :
               LET merge == MergesOf(dedup_passes)[k]
               IN  merge.absorbed.context_ts_set \subseteq merge.result.context_ts_set
        /\ \A u \in DOMAIN units : \E d \in DOMAIN deduped :
               units[u].context_ts_set \subseteq deduped[d].context_ts_set

\* a merge in which the absorbed unit brought a timestamp and a participant
\* the receiver did not have
C21_Witness ==
    /\ dedupPc = "once"
    /\ \E k \in DOMAIN MergesOf(dedup_passes) :
           LET merge == MergesOf(dedup_passes)[k]
           IN  /\ merge.absorbed.context_ts_set \ merge.receiver.context_ts_set # {}
               /\ merge.absorbed.participants \ merge.receiver.participants # {}
    /\ AllContextTs(deduped) = AllContextTs(units)

AscendingDates(cls) == \A k \in 1..(Len(cls) - 1) : cls[k].date <= cls[k + 1].date

\* C22: in every merge the receiver's date is not later than the absorbed
\* unit's, the merge leaves the receiver's date and cluster (with its
\* first_ts) as they were, and the units returned are in ascending date
\* order.
C22_EarlierUnitReceives ==
    dedupPc = "once" =>
        /\ \A k \in DOMAIN MergesOf(dedup_passes) :
               LET merge == MergesOf(dedup_passes)[k]
               IN  /\ merge.receiver.date <= merge.absorbed.date
                   /\ merge.result.date = merge.receiver.date
                   /\ merge.result.cluster = merge.receiver.cluster
        /\ AscendingDates(deduped)

\* the units came in with a later date first, and a unit of the earlier
\* date absorbed one of the later date
C22_Witness ==
    /\ dedupPc = "once"
    /\ ~AscendingDates(units)
    /\ Len(deduped) > 1
    /\ \E k \in DOMAIN MergesOf(dedup_passes) :
           LET merge == MergesOf(dedup_passes)[k]
           IN  /\ merge.receiver.date < merge.absorbed.date
               /\ merge.receiver.cluster > merge.absorbed.cluster

TsOf(msgs) == {msgs[k].ts : k \in DOMAIN msgs}

\* context_ts_set is the set of ts of context_messages
TsSetMatchesMessages(unit) == unit.context_ts_set = TsOf(unit.context_messages)

\* one message per ts, in ascending ts order
StrictlyAscendingTs(msgs) == \A k \in 1..(Len(msgs) - 1) : msgs[k].ts < msgs[k + 1].ts

\* C29: the context_ts_set of a unit is the set of ts of its
\* context_messages when the unit is built, after every merge and when
\* dedup_by_context_overlap returns; the context_messages of a receiver hold
\* one message per ts in ascending order after a merge.
C29_TsSetIsTsOfMessages ==
    /\ \A u \in DOMAIN units : TsSetMatchesMessages(units[u])
    /\ dedupPc = "once" =>
           /\ \A d \in DOMAIN deduped : TsSetMatchesMessages(deduped[d])
           /\ \A k \in DOMAIN MergesOf(dedup_passes) :
                  LET merge == MergesOf(dedup_passes)[k]
                  IN  /\ TsSetMatchesMessages(merge.result)
                      /\ StrictlyAscendingTs(merge.result.context_messages)

\* a receiver absorbed a unit that shared a message with it and brought an
\* earlier one
C29_Witness ==
    /\ dedupPc = "once"
    /\ \E k \in DOMAIN MergesOf(dedup_passes) :
           LET merge == MergesOf(dedup_passes)[k]
           IN  /\ merge.receiver.context_ts_set \cap merge.absorbed.context_ts_set # {}
               /\ \E t \in merge.absorbed.context_ts_set :
                      /\ t \notin merge.receiver.context_ts_set
                      /\ \E r \in merge.receiver.context_ts_set : t < r
               /\ TsSetMatchesMessages(merge.result)

(***************************************************************************)
(* Termination of dedup_by_context_overlap                                 *)
(***************************************************************************)
\* C30: the while loop ends: a pass that merges returns fewer units than it
\* was given, so a call on n >= 1 units makes at most n passes and returns
\* between 1 and n units (the units its last pass returned).
C30_AtMostNPasses ==
    (dedupPc = "once" /\ Len(units) >= 1) =>
        /\ \A k \in DOMAIN dedup_passes :
               dedup_passes[k].merges # <<>> =>
                   Len(dedup_passes[k].clusters) < Len(dedup_passes[k].before)
        /\ Len(dedup_passes) <= Len(units)
        /\ Len(deduped) >= 1
        /\ Len(deduped) <= Len(units)
        /\ dedup_passes # <<>> => deduped = Last(dedup_passes).clusters

\* as many passes as units: each pass but the last merged one unit away
C30_Witness ==
    /\ dedupPc = "once"
    /\ Len(units) = 3
    /\ Len(dedup_passes) = Len(units)
    /\ Len(deduped) = 1

(***************************************************************************)
(* synthesize_article on a group of one                                    *)
(***************************************************************************)
\* C23: for a group of exactly one extraction synthesize_article makes no
\* provider call and returns the extraction's title, category and content
\* as they are (the defaults "Untitled", "FAQ" and "" stand in for a key the
\* extraction does not hold).
C23_SingleExtractionPassesThrough ==
    (synthPc # "args" /\ Len(synth_extractions) = 1) =>
        LET ext == synth_extractions[1]
        IN  /\ synth_calls = 0
            /\ synth_call = NoCall
            /\ synthPc = "returned"
            /\ article.title = Get(ext.title, "Untitled")
            /\ article.category = Get(ext.category, "FAQ")
            /\ article.content = <<Get(ext.content, "")>>
            /\ ext.title # Missing => article.title = ext.title
            /\ ext.category # Missing => article.category = ext.category
            /\ ext.content # Missing => article.content = <<ext.content>>

\* one extraction that holds the three keys went through unchanged
C23_Witness ==
    /\ synthPc = "returned"
    /\ Len(synth_extractions) = 1
    /\ synth_extractions[1].title = "Title 0"
    /\ synth_extractions[1].category = "How-To"
    /\ synth_extractions[1].content = "steps"
    /\ article = [title |-> "Title 0", category |-> "How-To", content |-> <<"steps">>]
    /\ synth_calls = 0

(***************************************************************************)
(* Strategy 3 of _extract_json                                             *)
(***************************************************************************)
NoBracket(prose) == \A k \in DOMAIN prose : prose[k] \notin {"[", "]", "{", "}"}

\* the earliest position of the text that holds "[" or "{", 0 for none
EarliestOpen(text) ==
    LET opens == {i \in DOMAIN text : HoldsChar(text[i], "[") \/ HoldsChar(text[i], "{")}
    IN  IF opens = {} THEN 0 ELSE CHOOSE i \in opens : \A j \in opens : i <= j

\* the depth walk from that position, over the brackets of its kind
WalkFromEarliest(text) ==
    LET start == EarliestOpen(text)
    IN  IF start = 0 THEN Raised("JSONDecodeError")
        ELSE IF HoldsChar(text[start], "[")
             THEN DepthWalk(text, start, start, 0, "[", "]")
             ELSE DepthWalk(text, start, start, 0, "{", "}")

\* C25: for a value between leading and trailing prose the walk of
\* strategy 3 starts at the earliest "[" or "{" of the text and parses up to
\* where the depth is back at zero; so an object that holds an array, put
\* between prose without brackets, extracts to the whole object.
C25_WalkStartsAtEarliestOpen ==
    prose_result # NotRun =>
        /\ prose_result = WalkFromEarliest(ProseText(json_value, leading_prose, trailing_prose))
        /\ (json_value \in JsonObjects /\ NoBracket(leading_prose) /\ NoBracket(trailing_prose))
               => prose_result = Returns(json_value)

(***************************************************************************)
(* The slice gather_context returns                                        *)
(***************************************************************************)
\* the places (from 1) of all_messages whose ts is a ts of the cluster
PlacesOfCluster ==
    {k \in DOMAIN gc_all_messages :
        \E c \in DOMAIN gc_cluster : gc_cluster[c].ts = gc_all_messages[k].ts}

\* C26: when a ts of the cluster occurs in all_messages, gather_context
\* returns the messages from W places before the first such message (or
\* from the start) to W places after the last one (or to the end), as they
\* stand in all_messages: every cluster message of the list is in it, with
\* at most W messages before the first and at most W after the last.
C26_SliceAroundCluster ==
    (contextPc = "scrape" /\ PlacesOfCluster # {}) =>
        LET lo == SetMin(PlacesOfCluster)
            hi == SetMax(PlacesOfCluster)
            from == IF lo - gc_window < 1 THEN 1 ELSE lo - gc_window
            to == IF hi + gc_window > Len(gc_all_messages)
                  THEN Len(gc_all_messages) ELSE hi + gc_window
        IN  /\ Len(gathered_context) = to - from + 1
            /\ \A k \in 1..Len(gathered_context) :
                   gathered_context[k] = gc_all_messages[from + k - 1]
            /\ \A k \in PlacesOfCluster : from <= k /\ k <= to
            /\ lo - from <= gc_window
            /\ to - hi <= gc_window

\* a window of one message that the start of the list cuts short: the
\* context holds more than the cluster's messages and less than the list
C26_Witness ==
    /\ contextPc = "scrape"
    /\ PlacesOfCluster # {}
    /\ gc_window = 1
    /\ SetMin(PlacesOfCluster) = 1
    /\ Len(gathered_context) > Cardinality(PlacesOfCluster)
    /\ Len(gathered_context) < Len(gc_all_messages)

(***************************************************************************)
(* What classify_messages returns                                          *)
(***************************************************************************)
\* how many times the input message of this ts is in the list returned
TimesReturned(ts) == Cardinality({k \in DOMAIN relevant : relevant[k].ts = ts})

\* C28: classify_messages returns each input message at most once, whatever
\* the answers hold, and the input records are as they were passed in (the
\* reason is set on copies).
C28_EachMessageAtMostOnce ==
    classifyPc = "returned" =>
        /\ \A m \in DOMAIN channel_messages : TimesReturned(channel_messages[m].ts) <= 1
        /\ \A m \in DOMAIN channel_messages :
               channel_messages[m].relevance_reason = Missing

(***************************************************************************)
(* claimed_ts in the API-mode cluster loop                                 *)
(***************************************************************************)
TsOfCluster(c) == {api_clusters[c][k].ts : k \in DOMAIN api_clusters[c]}

\* C27: claimed_ts is the union of the context_ts_set of the incidents
\* built so far and never loses a ts; a cluster is skipped, without a fetch
\* and without an incident, exactly when all its ts were claimed when the
\* loop reached it, and every other cluster gives exactly one incident.
C27_ClaimedTsIsUnionOfContexts ==
    /\ claimed_ts = UNION {raw_incidents[k].context_ts_set : k \in DOMAIN raw_incidents}
    /\ Len(claim_log) = cluster_idx
    /\ \A c \in DOMAIN claim_log :
           /\ claim_log[c].skipped <=> TsOfCluster(c) \subseteq claim_log[c].claimed_before
           /\ claim_log[c].skipped => claim_log[c].fetches = 0 /\ claim_log[c].incidents = 0
           /\ ~claim_log[c].skipped => claim_log[c].incidents = 1
           /\ claim_log[c].claimed_before \subseteq claimed_ts
           /\ c > 1 => claim_log[c - 1].claimed_before \subseteq claim_log[c].claimed_before
    /\ Len(raw_incidents) = Cardinality({c \in DOMAIN claim_log : ~claim_log[c].skipped})
    /\ \A k \in DOMAIN raw_incidents :
           /\ ~claim_log[raw_incidents[k].cluster + 1].skipped
           /\ \A j \in DOMAIN raw_incidents :
                  raw_incidents[j].cluster = raw_incidents[k].cluster => j = k

\* three clusters: the first gives an incident whose context holds the
\* second's message, the second is skipped, the third gives an incident
C27_Witness ==
    /\ claimPc = "done"
    /\ Len(api_clusters) = 3
    /\ Len(claim_log) = 3
    /\ ~claim_log[1].skipped
    /\ claim_log[2].skipped
    /\ ~claim_log[3].skipped
    /\ Len(raw_incidents) = 2

(***************************************************************************)
(* The provider calls of a knowledge-base run                              *)
(***************************************************************************)
CallsFor(kind, channel, item) ==
    Cardinality({k \in DOMAIN kb_calls :
                    /\ kb_calls[k].kind = kind
                    /\ kb_calls[k].channel = channel
                    /\ kb_calls[k].item = item})

RunOver == kbPc \in {"done", "raised"}

\* the units of the run: those of the channels whose deduplication was
\* reached
UnitsOfRun == {<<c, u>> \in (DOMAIN kb_deduped) \X (0..MaxDeduped) : u < kb_deduped[c]}

NeverRepeated ==
    \A k, j \in DOMAIN kb_calls :
        /\ kb_calls[k].kind = kb_calls[j].kind
        /\ kb_calls[k].channel = kb_calls[j].channel
        /\ kb_calls[k].item = kb_calls[j].item
        => k = j

ExactlyOncePerBatchAndUnit ==
    /\ \A c \in DOMAIN kb_channels :
           \A i \in BatchStarts(kb_channels[c]) : CallsFor("classify", c, i) = 1
    /\ \A cu \in UnitsOfRun : CallsFor("extract", cu[1], cu[2]) = 1

\* C24: when a knowledge-base run is over, provider.complete was called
\* exactly once for every classification batch and for every deduplicated
\* unit, at most once for grouping and at most once for every topic group;
\* no call, failed or not, is made twice.
C24_OneCallPerBatchUnitGroup ==
    /\ NeverRepeated
    /\ CallsFor("group", 0, 0) <= 1
    /\ \A g \in 0..(Len(kb_groups) - 1) : CallsFor("synthesize", 0, g) <= 1
    /\ RunOver => ExactlyOncePerBatchAndUnit

\* the counts are those of the claim in every run that wrote its report
KbExactWhenReportWritten ==
    /\ NeverRepeated
    /\ CallsFor("group", 0, 0) <= 1
    /\ \A g \in 0..(Len(kb_groups) - 1) : CallsFor("synthesize", 0, g) <= 1
    /\ kbPc = "done" => ExactlyOncePerBatchAndUnit

\* a run of two channels that ended in the first batch of the first
KbEndedInFirstBatch ==
    /\ kbPc = "raised"
    /\ Len(kb_channels) = 2
    /\ kb_channels[2] > 0
    /\ Len(kb_calls) = 1

====
